---- MODULE Spec2Model ----
(***************************************************************************)
(* A model of Wisp (src/wisp.cpp): the tagged Value, its arithmetic and    *)
(* ordering operators, the Environment with its reserved table and parent  *)
(* chain, the tree-walking evaluator (Value::eval, Value::apply and the    *)
(* builtins), the parser, run, and the process around them (main and the   *)
(* REPL).                                                                  *)
(*                                                                         *)
(* A std::string is a sequence of one-character strings.  A double is a    *)
(* pair <<n, d>> standing for n/d in lowest terms with d >= 0; d = 0       *)
(* encodes the IEEE specials (<<1,0>> = +inf, <<-1,0>> = -inf,             *)
(* <<0,0>> = NaN).  Negative zero is not distinguished from zero.          *)
(***************************************************************************)
EXTENDS Integers, Sequences, FiniteSets, TLC

VARIABLES env, prev_env, expr, out, trace, steps,
          lhs, rhs, op, res,
          lexemes, source, parsed,
          mode, code, file, exit_status, reports, inputs

vars == <<env, prev_env, expr, out, trace, steps, lhs, rhs, op, res,
          lexemes, source, parsed, mode, code, file, exit_status, reports, inputs>>

\* The text given to the parser, and the process around the evaluator: its
\* mode, the session buffer of the REPL, the exported file, the exit status,
\* what was written to the error stream and the lines read so far.
front == <<lexemes, source, parsed, mode, code, file, exit_status, reports, inputs>>

RECURSIVE GCD(_, _)
RECURSIVE op_eq(_, _)
RECURSIVE has(_, _)
RECURSIVE get(_, _)
RECURSIVE get_used_atoms(_)
RECURSIVE used_atoms_of_list(_)
RECURSIVE capture(_, _, _)
RECURSIVE nat_to_string(_)
RECURSIVE FloorLog10(_, _)
RECURSIVE strip_zeros(_)
RECURSIVE escape_quotes(_)
RECURSIVE debug(_)
RECURSIVE debug_list(_, _)
RECURSIVE eval(_, _, _)
RECURSIVE apply(_, _, _, _)
RECURSIVE call_builtin(_, _, _, _)
RECURSIVE eval_args(_, _, _)
RECURSIVE eval_block(_, _, _, _)
RECURSIVE bind_params(_, _, _, _)
RECURSIVE for_iterate(_, _, _, _, _)
RECURSIVE fold_sum(_, _)
RECURSIVE fold_product(_, _)
RECURSIVE range_loop(_, _, _)
RECURSIVE AtomNames(_)
RECURSIVE push_all(_, _)
RECURSIVE skip_whitespace(_, _)
RECURSIVE end_of_line(_, _)
RECURSIVE end_of_number(_, _)
RECURSIVE end_of_symbol(_, _)
RECURSIVE leading_digits(_, _, _)
RECURSIVE Pow10(_)
RECURSIVE skip_comments(_, _)
RECURSIVE end_of_string(_, _, _)
RECURSIVE unescape(_)
RECURSIVE parse(_, _)
RECURSIVE ScanState(_, _)
RECURSIVE map_loop(_, _, _, _, _)
RECURSIVE filter_loop(_, _, _, _, _)
RECURSIVE reduce_loop(_, _, _, _, _)
RECURSIVE parse_list(_, _, _)
RECURSIVE parse_loop(_, _, _, _)
RECURSIVE Text(_)
RECURSIVE Numbers(_)
RECURSIVE strip_comments(_)
RECURSIVE SucceededLines(_)
RECURSIVE run_loop(_, _)
RECURSIVE run_next(_, _)


\* ------------------------------------------------------------------------
\* Bounds of the model
\* ------------------------------------------------------------------------

\* The number of top-level expressions evaluated in one run.
MaxSteps == 4

\* The depth of nested eval/apply calls the host stack allows.
MaxDepth == 12

\* Operands of the binary operators range over the integers -MaxInt..MaxInt.
MaxInt == 2

\* ------------------------------------------------------------------------
\* Error messages (wisp.cpp 61-75)
\* ------------------------------------------------------------------------

TOO_FEW_ARGS == "too few arguments to function"
TOO_MANY_ARGS == "too many arguments to function"
INVALID_ARGUMENT == "invalid argument"
MISMATCHED_TYPES == "mismatched types"
CALL_NON_FUNCTION == "called non-function"
INVALID_LAMBDA == "invalid lambda"
INVALID_BIN_OP == "invalid binary operation"
INVALID_ORDER == "cannot order expression"
BAD_CAST == "cannot cast"
ATOM_NOT_DEFINED == "atom not defined"
EVAL_EMPTY_LIST == "evaluated empty list"
INDEX_OUT_OF_RANGE == "index out of range"

\* Outcomes that are not a wisp Error: the process is killed by the host.
SIGFPE == "killed: integer division by zero"
STACK_OVERFLOW == "killed: host stack exhausted"
\* Value::pop reads list[list.size()-1] and calls pop_back() on an empty
\* vector; int(double) of a non-finite double is undefined as well.
UB_POP_EMPTY == "undefined: pop of an empty vector"
UB_FLOAT_TO_INT == "undefined: conversion of a non-finite double to int"

\* ------------------------------------------------------------------------
\* Value constructors (wisp.cpp 180-243)
\* ------------------------------------------------------------------------

EmptyDefs == [n \in {} |-> 0]

Unit == [type |-> "UNIT"]
MkInt(i) == [type |-> "INT", i |-> i]
MkFloat(f) == [type |-> "FLOAT", f |-> f]
MkList(l) == [type |-> "LIST", list |-> l]
quote(quoted) == [type |-> "QUOTE", list |-> <<quoted>>]
atom(s) == [type |-> "ATOM", str |-> s]
string(s) == [type |-> "STRING", str |-> s]
Builtin(name, b) == [type |-> "BUILTIN", str |-> name, b |-> b]

is_builtin(v) == v.type = "BUILTIN"
is_number(v) == v.type = "INT" \/ v.type = "FLOAT"

\* The outcome of an operator: a Value, or a thrown Error (its message).
RVal(v) == [ok |-> TRUE, val |-> v, err |-> ""]
RErr(e) == [ok |-> FALSE, val |-> Unit, err |-> e]
\* The outcome of a comparison: a bool, or a thrown Error.
BVal(b) == [ok |-> TRUE, b |-> b, err |-> ""]
BErr(e) == [ok |-> FALSE, b |-> FALSE, err |-> e]

\* ------------------------------------------------------------------------
\* int and double arithmetic.  The ints of the model stay far below the
\* range of a C++ int, so no int operation overflows.
\* ------------------------------------------------------------------------

Abs(n) == IF n < 0 THEN -n ELSE n
Sign(n) == IF n < 0 THEN -1 ELSE IF n > 0 THEN 1 ELSE 0

GCD(a, b) == IF b = 0 THEN a ELSE GCD(b, a % b)

\* C++ integer division and remainder truncate toward zero (divisor # 0).
TruncDiv(a, b) == Sign(a) * Sign(b) * (Abs(a) \div Abs(b))
TruncMod(a, b) == a - b * TruncDiv(a, b)

\* n/d in lowest terms, d >= 0.
Norm(n, d) ==
  IF d = 0 THEN <<Sign(n), 0>>
  ELSE LET g == GCD(Abs(n), Abs(d))
       IN <<Sign(d) * Sign(n) * (Abs(n) \div g), Abs(d) \div g>>

FIsNaN(x) == x = <<0, 0>>
FAdd(x, y) == Norm(x[1] * y[2] + y[1] * x[2], x[2] * y[2])
FSub(x, y) == Norm(x[1] * y[2] - y[1] * x[2], x[2] * y[2])
FMul(x, y) == Norm(x[1] * y[1], x[2] * y[2])
FDiv(x, y) == Norm(x[1] * y[2], x[2] * y[1])
FLess(x, y) == ~FIsNaN(x) /\ ~FIsNaN(y) /\ x[1] * y[2] < y[1] * x[2]
FEq(x, y) == ~FIsNaN(x) /\ ~FIsNaN(y) /\ x = y
\* fmod of <cmath>.
FMod(x, y) ==
  IF FIsNaN(x) \/ FIsNaN(y) \/ x[2] = 0 \/ y[1] = 0 THEN <<0, 0>>
  ELSE IF y[2] = 0 THEN x
  ELSE LET q == TruncDiv(x[1] * y[2], x[2] * y[1])
       IN FSub(x, FMul(<<q, 1>>, y))

\* ------------------------------------------------------------------------
\* Typecasting (wisp.cpp 364-383)
\* ------------------------------------------------------------------------

cast_to_float(v) ==
  CASE v.type = "FLOAT" -> RVal(v)
    [] v.type = "INT" -> RVal(MkFloat(<<v.i, 1>>))
    [] OTHER -> RErr(BAD_CAST)

cast_to_int(v) ==
  CASE v.type = "INT" -> RVal(v)
    [] v.type = "FLOAT" ->
         IF v.f[2] = 0 THEN RErr(UB_FLOAT_TO_INT)
         ELSE RVal(MkInt(TruncDiv(v.f[1], v.f[2])))
    [] OTHER -> RErr(BAD_CAST)

\* ------------------------------------------------------------------------
\* Comparison (wisp.cpp 389-425)
\* ------------------------------------------------------------------------

op_eq(a, b) ==
  IF a.type = "FLOAT" /\ b.type = "INT" THEN op_eq(a, cast_to_float(b).val)
  ELSE IF a.type = "INT" /\ b.type = "FLOAT" THEN op_eq(cast_to_float(a).val, b)
  ELSE IF a.type # b.type THEN FALSE
  ELSE CASE a.type = "FLOAT" -> FEq(a.f, b.f)
         [] a.type = "INT" -> a.i = b.i
         [] a.type = "BUILTIN" -> a.b = b.b
         [] a.type \in {"STRING", "ATOM"} -> a.str = b.str
         [] a.type \in {"LAMBDA", "LIST"} ->
              /\ Len(a.list) = Len(b.list)
              /\ \A i \in 1..Len(a.list) : op_eq(a.list[i], b.list[i])
         [] a.type = "QUOTE" -> op_eq(a.list[1], b.list[1])
         [] OTHER -> TRUE

op_neq(a, b) == ~op_eq(a, b)

\* ------------------------------------------------------------------------
\* Ordering (wisp.cpp 447-478)
\* ------------------------------------------------------------------------

op_lt(a, b) ==
  IF b.type # "FLOAT" /\ b.type # "INT" THEN BErr(INVALID_BIN_OP)
  ELSE CASE a.type = "FLOAT" -> BVal(FLess(a.f, cast_to_float(b).val.f))
         [] a.type = "INT" ->
              IF b.type = "FLOAT" THEN BVal(FLess(cast_to_float(a).val.f, b.f))
              ELSE BVal(a.i < b.i)
         [] OTHER -> BErr(INVALID_ORDER)

op_ge(a, b) ==
  LET l == op_lt(a, b) IN IF l.ok THEN BVal(~l.b) ELSE l

op_le(a, b) ==
  IF op_eq(a, b) THEN BVal(TRUE) ELSE op_lt(a, b)

op_gt(a, b) ==
  LET l == op_le(a, b) IN IF l.ok THEN BVal(~l.b) ELSE l

\* ------------------------------------------------------------------------
\* Arithmetic (wisp.cpp 485-660)
\* ------------------------------------------------------------------------

op_add(a, b) ==
  IF b.type = "UNIT" THEN RVal(b)
  ELSE IF (is_number(a) \/ is_number(b)) /\ ~(is_number(a) /\ is_number(b))
       THEN RErr(INVALID_BIN_OP)
  ELSE CASE a.type = "FLOAT" -> RVal(MkFloat(FAdd(a.f, cast_to_float(b).val.f)))
         [] a.type = "INT" ->
              IF b.type = "FLOAT"
              THEN RVal(MkFloat(FAdd(cast_to_float(a).val.f, b.f)))
              ELSE RVal(MkInt(a.i + b.i))
         [] a.type = "STRING" ->
              IF b.type = "STRING" THEN RVal(string(a.str \o b.str))
              ELSE RErr(INVALID_BIN_OP)
         [] a.type = "LIST" ->
              IF b.type = "LIST" THEN RVal(MkList(a.list \o b.list))
              ELSE RErr(INVALID_BIN_OP)
         [] a.type = "UNIT" -> RVal(a)
         [] OTHER -> RErr(INVALID_BIN_OP)

op_sub(a, b) ==
  IF b.type = "UNIT" THEN RVal(b)
  ELSE IF b.type # "FLOAT" /\ b.type # "INT" THEN RErr(INVALID_BIN_OP)
  ELSE CASE a.type = "FLOAT" -> RVal(MkFloat(FSub(a.f, cast_to_float(b).val.f)))
         [] a.type = "INT" ->
              IF b.type = "FLOAT"
              THEN RVal(MkFloat(FSub(cast_to_float(a).val.f, b.f)))
              ELSE RVal(MkInt(a.i - b.i))
         [] a.type = "UNIT" -> RVal(a)
         [] OTHER -> RErr(INVALID_BIN_OP)

op_mul(a, b) ==
  IF b.type = "UNIT" THEN RVal(b)
  ELSE IF b.type # "FLOAT" /\ b.type # "INT" THEN RErr(INVALID_BIN_OP)
  ELSE CASE a.type = "FLOAT" -> RVal(MkFloat(FMul(a.f, cast_to_float(b).val.f)))
         [] a.type = "INT" ->
              IF b.type = "FLOAT"
              THEN RVal(MkFloat(FMul(cast_to_float(a).val.f, b.f)))
              ELSE RVal(MkInt(a.i * b.i))
         [] a.type = "UNIT" -> RVal(a)
         [] OTHER -> RErr(INVALID_BIN_OP)

\* The outcomes of a C++ int division or remainder by zero, which is
\* undefined behaviour: "trap" is the SIGFPE of x86 builds, "zero" the
\* quotient 0 of builds whose divide instruction does not trap.
DivZeroOutcomes == {"trap", "zero"}

IntDivZero(ub) == IF ub = "trap" THEN RErr(SIGFPE) ELSE RVal(MkInt(0))

op_div(a, b, ub) ==
  IF b.type = "UNIT" THEN RVal(b)
  ELSE IF b.type # "FLOAT" /\ b.type # "INT" THEN RErr(INVALID_BIN_OP)
  ELSE CASE a.type = "FLOAT" -> RVal(MkFloat(FDiv(a.f, cast_to_float(b).val.f)))
         [] a.type = "INT" ->
              IF b.type = "FLOAT"
              THEN RVal(MkFloat(FDiv(cast_to_float(a).val.f, b.f)))
              ELSE IF b.i = 0 THEN IntDivZero(ub)
              ELSE RVal(MkInt(TruncDiv(a.i, b.i)))
         [] a.type = "UNIT" -> RVal(a)
         [] OTHER -> RErr(INVALID_BIN_OP)

op_mod(a, b, ub) ==
  IF b.type = "UNIT" THEN RVal(b)
  ELSE IF b.type # "FLOAT" /\ b.type # "INT" THEN RErr(INVALID_BIN_OP)
  ELSE CASE a.type = "FLOAT" -> RVal(MkFloat(FMod(a.f, cast_to_float(b).val.f)))
         [] a.type = "INT" ->
              IF b.type = "FLOAT"
              THEN RVal(MkFloat(FMod(cast_to_float(a).val.f, b.f)))
              ELSE IF b.i = 0 THEN IntDivZero(ub)
              ELSE RVal(MkInt(TruncMod(a.i, b.i)))
         [] a.type = "UNIT" -> RVal(a)
         [] OTHER -> RErr(INVALID_BIN_OP)

\* ------------------------------------------------------------------------
\* Environment (wisp.cpp 120-148, 829-831, 1683-1783)
\*
\* An Environment is its defs, a function from names to Values.  The
\* parent_scope pointers make a chain, written as the sequence of the defs
\* of the scope itself, its parent, its grandparent, ...
\* ------------------------------------------------------------------------

\* The builtins of Environment::get, in the order of its tests.
ReservedTable ==
  <<
       [name |-> <<"e","v","a","l">>, b |-> "builtin::eval"],
       [name |-> <<"t","y","p","e">>, b |-> "builtin::get_type_name"],
       [name |-> <<"p","a","r","s","e">>, b |-> "builtin::parse"],
       [name |-> <<"d","o">>, b |-> "builtin::do_block"],
       [name |-> <<"i","f">>, b |-> "builtin::if_then_else"],
       [name |-> <<"f","o","r">>, b |-> "builtin::for_loop"],
       [name |-> <<"w","h","i","l","e">>, b |-> "builtin::while_loop"],
       [name |-> <<"s","c","o","p","e">>, b |-> "builtin::scope"],
       [name |-> <<"q","u","o","t","e">>, b |-> "builtin::quote"],
       [name |-> <<"d","e","f","u","n">>, b |-> "builtin::defun"],
       [name |-> <<"d","e","f","i","n","e">>, b |-> "builtin::define"],
       [name |-> <<"l","a","m","b","d","a">>, b |-> "builtin::lambda"],
       [name |-> <<"=">>, b |-> "builtin::eq"],
       [name |-> <<"!","=">>, b |-> "builtin::neq"],
       [name |-> <<">">>, b |-> "builtin::greater"],
       [name |-> <<"<">>, b |-> "builtin::less"],
       [name |-> <<">","=">>, b |-> "builtin::greater_eq"],
       [name |-> <<"<","=">>, b |-> "builtin::less_eq"],
       [name |-> <<"+">>, b |-> "builtin::sum"],
       [name |-> <<"-">>, b |-> "builtin::subtract"],
       [name |-> <<"*">>, b |-> "builtin::product"],
       [name |-> <<"/">>, b |-> "builtin::divide"],
       [name |-> <<"%">>, b |-> "builtin::remainder"],
       [name |-> <<"l","i","s","t">>, b |-> "builtin::list"],
       [name |-> <<"i","n","s","e","r","t">>, b |-> "builtin::insert"],
       [name |-> <<"i","n","d","e","x">>, b |-> "builtin::index"],
       [name |-> <<"r","e","m","o","v","e">>, b |-> "builtin::remove"],
       [name |-> <<"l","e","n">>, b |-> "builtin::len"],
       [name |-> <<"p","u","s","h">>, b |-> "builtin::push"],
       [name |-> <<"p","o","p">>, b |-> "builtin::pop"],
       [name |-> <<"h","e","a","d">>, b |-> "builtin::head"],
       [name |-> <<"t","a","i","l">>, b |-> "builtin::tail"],
       [name |-> <<"f","i","r","s","t">>, b |-> "builtin::head"],
       [name |-> <<"l","a","s","t">>, b |-> "builtin::pop"],
       [name |-> <<"r","a","n","g","e">>, b |-> "builtin::range"],
       [name |-> <<"m","a","p">>, b |-> "builtin::map_list"],
       [name |-> <<"f","i","l","t","e","r">>, b |-> "builtin::filter_list"],
       [name |-> <<"r","e","d","u","c","e">>, b |-> "builtin::reduce_list"],
       [name |-> <<"e","x","i","t">>, b |-> "builtin::exit"],
       [name |-> <<"q","u","i","t">>, b |-> "builtin::exit"],
       [name |-> <<"p","r","i","n","t">>, b |-> "builtin::print"],
       [name |-> <<"i","n","p","u","t">>, b |-> "builtin::input"],
       [name |-> <<"r","a","n","d","o","m">>, b |-> "builtin::random"],
       [name |-> <<"i","n","c","l","u","d","e">>, b |-> "builtin::include"],
       [name |-> <<"r","e","a","d","-","f","i","l","e">>, b |-> "builtin::read_file"],
       [name |-> <<"w","r","i","t","e","-","f","i","l","e">>, b |-> "builtin::write_file"],
       [name |-> <<"d","e","b","u","g">>, b |-> "builtin::debug"],
       [name |-> <<"r","e","p","l","a","c","e">>, b |-> "builtin::replace"],
       [name |-> <<"d","i","s","p","l","a","y">>, b |-> "builtin::display"],
       [name |-> <<"i","n","t">>, b |-> "builtin::cast_to_int"],
       [name |-> <<"f","l","o","a","t">>, b |-> "builtin::cast_to_float"]
  >>

endl_name == <<"e","n","d","l">>

ReservedNames == {ReservedTable[i].name : i \in DOMAIN ReservedTable} \cup {endl_name}

\* The Value the reserved table gives for a reserved name.
reserved_value(name) ==
  IF name = endl_name THEN string(<<"\n">>)
  ELSE LET e == CHOOSE i \in DOMAIN ReservedTable : ReservedTable[i].name = name
       IN Builtin(name, ReservedTable[e].b)

set(defs, name, value) ==
  [n \in DOMAIN defs \cup {name} |-> IF n = name THEN value ELSE defs[n]]

combine(defs, other) ==
  [n \in DOMAIN defs \cup DOMAIN other |-> IF n \in DOMAIN other THEN other[n] ELSE defs[n]]

\* A has that also counts the reserved table.
has_counting_reserved(chain, name) ==
  \/ name \in ReservedNames
  \/ \E i \in 1..Len(chain) : name \in DOMAIN chain[i]

has(chain, name) ==
  IF name \in DOMAIN chain[1] THEN TRUE
  ELSE IF Len(chain) > 1 THEN has(Tail(chain), name)
  ELSE FALSE

\* A get that consults the local definitions before the reserved table.
get_local_first(chain, name) ==
  IF name \in DOMAIN chain[1] THEN RVal(chain[1][name])
  ELSE IF name \in ReservedNames THEN RVal(reserved_value(name))
  ELSE IF Len(chain) > 1 THEN get(Tail(chain), name)
  ELSE RErr(ATOM_NOT_DEFINED)

\* A get that prefers the outermost scope that defines the name.
get_outermost_first(chain, name) ==
  IF name \in ReservedNames THEN RVal(reserved_value(name))
  ELSE IF Len(chain) > 1 /\ has(Tail(chain), name) THEN get(Tail(chain), name)
  ELSE IF name \in DOMAIN chain[1] THEN RVal(chain[1][name])
  ELSE RErr(ATOM_NOT_DEFINED)

get(chain, name) ==
  IF name \in ReservedNames THEN RVal(reserved_value(name))
  ELSE IF name \in DOMAIN chain[1] THEN RVal(chain[1][name])
  ELSE IF Len(chain) > 1 THEN
         IF name \in DOMAIN chain[2] THEN RVal(chain[2][name])
         ELSE get(Tail(chain), name)
  ELSE RErr(ATOM_NOT_DEFINED)

\* ------------------------------------------------------------------------
\* Lambda construction (wisp.cpp 221-279)
\* ------------------------------------------------------------------------

used_atoms_of_list(l) ==
  IF l = <<>> THEN <<>>
  ELSE get_used_atoms(Head(l)) \o used_atoms_of_list(Tail(l))

get_used_atoms(v) ==
  CASE v.type = "QUOTE" -> get_used_atoms(v.list[1])
    [] v.type = "ATOM" -> <<v.str>>
    [] v.type = "LAMBDA" -> get_used_atoms(v.list[2])
    [] v.type = "LIST" -> used_atoms_of_list(v.list)
    [] OTHER -> <<>>

\* The loop of the Lambda constructor over used_atoms.
\* A Lambda constructor that captures nothing.
capture_nothing(used, chain, scope) == scope

capture(used, chain, scope) ==
  IF used = <<>> THEN scope
  ELSE capture(Tail(used), chain,
               IF has(chain, Head(used))
               THEN set(scope, Head(used), get(chain, Head(used)).val)
               ELSE scope)

Lambda(params, ret, chain) ==
  [type |-> "LAMBDA", list |-> <<MkList(params), ret>>,
   lambda_scope |-> capture(get_used_atoms(ret), chain, EmptyDefs)]

\* ------------------------------------------------------------------------
\* display and debug (wisp.cpp 95, 687-763), for every tag but BUILTIN, whose
\* text holds an address of the host
\* ------------------------------------------------------------------------

Digits == <<"0", "1", "2", "3", "4", "5", "6", "7", "8", "9">>

nat_to_string(n) ==
  IF n < 10 THEN <<Digits[n + 1]>>
  ELSE nat_to_string(n \div 10) \o <<Digits[(n % 10) + 1]>>

to_string(i) == IF i < 0 THEN <<"-">> \o nat_to_string(-i) ELSE nat_to_string(i)

\* to_string of a double: operator<< of a std::ostringstream at its default
\* precision, six significant digits in the shorter of the fixed and the
\* exponent notation, trailing zeros dropped.
FloorLog10(n, d) ==
  IF n >= d THEN (IF n >= 10 * d THEN 1 + FloorLog10(n, 10 * d) ELSE 0)
  ELSE FloorLog10(10 * n, d) - 1

RoundHalfEven(a, b) ==
  LET q == a \div b
      r == a % b
  IN IF 2 * r > b \/ (2 * r = b /\ q % 2 = 1) THEN q + 1 ELSE q

SixDigits(n, d, x) ==
  IF x <= 5 THEN RoundHalfEven(n * Pow10(5 - x), d) ELSE RoundHalfEven(n, d * Pow10(x - 5))

strip_zeros(s) ==
  IF s # <<>> /\ s[Len(s)] = "0" THEN strip_zeros(SubSeq(s, 1, Len(s) - 1)) ELSE s

zeros(k) == [i \in 1..k |-> "0"]

fraction(s) == IF s = <<>> THEN <<>> ELSE <<".">> \o s

float_to_string(f) ==
  IF f[2] = 0
  THEN (IF f[1] < 0 THEN <<"-">> ELSE <<>>)
       \o (IF f[1] = 0 THEN <<"n", "a", "n">> ELSE <<"i", "n", "f">>)
  ELSE IF f[1] = 0 THEN <<"0">>
  ELSE LET n == Abs(f[1])
           x0 == FloorLog10(n, f[2])
           m0 == SixDigits(n, f[2], x0)
           carry == m0 = Pow10(6)
           x == IF carry THEN x0 + 1 ELSE x0
           digits == nat_to_string(IF carry THEN Pow10(5) ELSE m0)
       IN (IF f[1] < 0 THEN <<"-">> ELSE <<>>)
          \o (IF x < -4 \/ x >= 6
              THEN <<digits[1]>> \o fraction(strip_zeros(SubSeq(digits, 2, 6)))
                   \o <<"e", IF x < 0 THEN "-" ELSE "+">>
                   \o (IF Abs(x) < 10 THEN <<"0">> ELSE <<>>) \o nat_to_string(Abs(x))
              ELSE IF x >= 0
              THEN SubSeq(digits, 1, x + 1) \o fraction(strip_zeros(SubSeq(digits, x + 2, 6)))
              ELSE <<"0">> \o fraction(zeros(-x - 1) \o strip_zeros(digits)))

escape_quotes(s) ==
  IF s = <<>> THEN <<>>
  ELSE (IF Head(s) = "\"" THEN <<"\\", "\"">> ELSE <<Head(s)>>) \o escape_quotes(Tail(s))

debug_list(l, i) ==
  IF i > Len(l) THEN <<>>
  ELSE debug(l[i]) \o (IF i < Len(l) THEN <<" ">> ELSE <<>>) \o debug_list(l, i + 1)

debug(v) ==
  CASE v.type = "QUOTE" -> <<"'">> \o debug(v.list[1])
    [] v.type = "ATOM" -> v.str
    [] v.type = "INT" -> to_string(v.i)
    [] v.type = "FLOAT" -> float_to_string(v.f)
    [] v.type = "STRING" -> <<"\"">> \o escape_quotes(v.str) \o <<"\"">>
    [] v.type = "LAMBDA" ->
         <<"(", "l", "a", "m", "b", "d", "a", " ">> \o debug_list(v.list, 1) \o <<")">>
    [] v.type = "LIST" -> <<"(">> \o debug_list(v.list, 1) \o <<")">>
    [] v.type = "UNIT" -> <<"@">>

display(v) ==
  CASE v.type = "STRING" -> v.str
    [] OTHER -> debug(v)

\* ------------------------------------------------------------------------
\* The evaluator (wisp.cpp 834-907, 1047-1644)
\*
\* An evaluation yields a Value or a thrown Error, the defs of the
\* environment it ran in as it left them, and the trace of what it did.
\* d is the depth of the call on the host stack.
\* ------------------------------------------------------------------------

EOk(v, defs, tr) == [ok |-> TRUE, val |-> v, err |-> "", defs |-> defs, tr |-> tr]
EFail(e, defs, tr) == [ok |-> FALSE, val |-> Unit, err |-> e, defs |-> defs, tr |-> tr]
WithTr(pre, r) == [r EXCEPT !.tr = pre \o @]
Rechain(defs, chain) == <<defs>> \o Tail(chain)

\* Trace events: the return of Value::eval, a call of Environment::get from
\* Value::eval, the entry of Value::apply, a call of Environment::set.
Event(k, d, v, name, args, chain, ok, val, err, defs) ==
  [k |-> k, d |-> d, v |-> v, name |-> name, args |-> args, chain |-> chain,
   ok |-> ok, val |-> val, err |-> err, defs |-> defs]
EvalEvent(d, v, chain, r) == Event("eval", d, v, <<>>, <<>>, chain, r.ok, r.val, r.err, r.defs)
GetEvent(d, name, chain, g) == Event("get", d, Unit, name, <<>>, chain, g.ok, g.val, g.err, chain[1])
ApplyEvent(d, f, args, chain) == Event("apply", d, f, <<>>, args, chain, TRUE, Unit, "", chain[1])
SetEvent(d, name, value, defs) == Event("set", d, Unit, name, <<>>, <<>>, TRUE, value, "", defs)

as_bool(v) == op_neq(v, MkInt(0))

get_type_name(v) ==
  CASE v.type = "QUOTE" -> "quote"
    [] v.type = "ATOM" -> "atom"
    [] v.type = "INT" -> "int"
    [] v.type = "FLOAT" -> "float"
    [] v.type = "LIST" -> "list"
    [] v.type = "STRING" -> "string"
    [] v.type \in {"BUILTIN", "LAMBDA"} -> "function"
    [] v.type = "UNIT" -> "unit"

\* A Value::eval that passes the arguments unevaluated to every callable.
eval_call_unevaluated(v, chain, d) ==
  LET args == Tail(v.list)
      fr == eval(v.list[1], chain, d + 1)
  IN IF ~fr.ok THEN fr
     ELSE WithTr(fr.tr, apply(fr.val, args, Rechain(fr.defs, chain), d + 1))

\* Value::eval on a non-empty LIST (wisp.cpp 888-902).
eval_call(v, chain, d) ==
  LET args == Tail(v.list)
      fr == eval(v.list[1], chain, d + 1)
  IN IF ~fr.ok THEN fr
     ELSE IF is_builtin(fr.val)
          THEN WithTr(fr.tr, apply(fr.val, args, Rechain(fr.defs, chain), d + 1))
          ELSE LET ar == eval_args(args, Rechain(fr.defs, chain), d + 1)
               IN IF ~ar.ok THEN EFail(ar.err, ar.defs, fr.tr \o ar.tr)
                  ELSE WithTr(fr.tr \o ar.tr,
                              apply(fr.val, ar.vals, Rechain(ar.defs, chain), d + 1))

\* A Value::eval that evaluates what a Quote holds.
eval_unquoting(v, chain, d) ==
  LET r == IF d > MaxDepth THEN EFail(STACK_OVERFLOW, chain[1], <<>>)
           ELSE CASE v.type = "QUOTE" -> eval(v.list[1], chain, d + 1)
                  [] v.type = "ATOM" ->
                       LET g == get(chain, v.str)
                       IN [ok |-> g.ok, val |-> g.val, err |-> g.err, defs |-> chain[1],
                           tr |-> <<GetEvent(d, v.str, chain, g)>>]
                  [] v.type = "LIST" ->
                       IF Len(v.list) < 1 THEN EFail(EVAL_EMPTY_LIST, chain[1], <<>>)
                       ELSE eval_call(v, chain, d)
                  [] OTHER -> EOk(v, chain[1], <<>>)
  IN [r EXCEPT !.tr = @ \o <<EvalEvent(d, v, chain, r)>>]

eval(v, chain, d) ==
  LET r == IF d > MaxDepth THEN EFail(STACK_OVERFLOW, chain[1], <<>>)
           ELSE CASE v.type = "QUOTE" -> EOk(v.list[1], chain[1], <<>>)
                  [] v.type = "ATOM" ->
                       LET g == get(chain, v.str)
                       IN [ok |-> g.ok, val |-> g.val, err |-> g.err, defs |-> chain[1],
                           tr |-> <<GetEvent(d, v.str, chain, g)>>]
                  [] v.type = "LIST" ->
                       IF Len(v.list) < 1 THEN EFail(EVAL_EMPTY_LIST, chain[1], <<>>)
                       ELSE eval_call(v, chain, d)
                  [] OTHER -> EOk(v, chain[1], <<>>)
  IN [r EXCEPT !.tr = @ \o <<EvalEvent(d, v, chain, r)>>]

\* builtin::eval_args, and the same loop in Value::eval (wisp.cpp 896-897):
\* the arguments are evaluated at depth d.
eval_args(args, chain, d) ==
  IF args = <<>>
  THEN [ok |-> TRUE, vals |-> <<>>, err |-> "", defs |-> chain[1], tr |-> <<>>]
  ELSE LET r == eval(Head(args), chain, d)
       IN IF ~r.ok
          THEN [ok |-> FALSE, vals |-> <<>>, err |-> r.err, defs |-> r.defs, tr |-> r.tr]
          ELSE LET rest == eval_args(Tail(args), Rechain(r.defs, chain), d)
               IN [rest EXCEPT !.vals = <<r.val>> \o @, !.tr = r.tr \o @]

\* The loop `acc = args[i].eval(env)` of do_block, scope and the loop bodies.
eval_block(exprs, acc, chain, d) ==
  IF exprs = <<>> THEN EOk(acc, chain[1], <<>>)
  ELSE LET r == eval(Head(exprs), chain, d)
       IN IF ~r.ok THEN r
          ELSE WithTr(r.tr, eval_block(Tail(exprs), r.val, Rechain(r.defs, chain), d))

\* The parameter loop of Value::apply (wisp.cpp 853-858) on the scope e.
bind_params(params, args, e, d) ==
  IF params = <<>> THEN [ok |-> TRUE, defs |-> e, tr |-> <<>>]
  ELSE IF Head(params).type # "ATOM" THEN [ok |-> FALSE, defs |-> e, tr |-> <<>>]
  ELSE LET e1 == set(e, Head(params).str, Head(args))
           rest == bind_params(Tail(params), Tail(args), e1, d)
       IN [rest EXCEPT !.tr = <<SetEvent(d, Head(params).str, Head(args), e1)>> \o @]

\* A Value::apply that ignores surplus arguments.
apply_ignoring_surplus(f, args, chain, d) ==
  LET ev == <<ApplyEvent(d, f, args, chain)>>
  IN CASE f.type = "LAMBDA" ->
            LET params == f.list[1].list
            IN IF Len(params) > Len(args) THEN EFail(TOO_FEW_ARGS, chain[1], ev)
               ELSE LET b == bind_params(params, args, f.lambda_scope, d)
                    IN IF ~b.ok THEN EFail(INVALID_LAMBDA, chain[1], ev \o b.tr)
                       ELSE LET r == eval(f.list[2], <<b.defs>> \o chain, d + 1)
                            IN [r EXCEPT !.defs = chain[1], !.tr = ev \o b.tr \o @]
       [] f.type = "BUILTIN" -> WithTr(ev, call_builtin(f.b, args, chain, d))
       [] OTHER -> EFail(CALL_NON_FUNCTION, chain[1], ev)

\* A Value::apply that leaves the application scope without a parent.
apply_without_parent(f, args, chain, d) ==
  LET ev == <<ApplyEvent(d, f, args, chain)>>
  IN CASE f.type = "LAMBDA" ->
            LET params == f.list[1].list
            IN IF Len(params) # Len(args)
               THEN EFail(IF Len(args) > Len(params) THEN TOO_MANY_ARGS ELSE TOO_FEW_ARGS,
                          chain[1], ev)
               ELSE LET b == bind_params(params, args, f.lambda_scope, d)
                    IN IF ~b.ok THEN EFail(INVALID_LAMBDA, chain[1], ev \o b.tr)
                       ELSE LET r == eval(f.list[2], <<b.defs>>, d + 1)
                            IN [r EXCEPT !.defs = chain[1], !.tr = ev \o b.tr \o @]
       [] f.type = "BUILTIN" -> WithTr(ev, call_builtin(f.b, args, chain, d))
       [] OTHER -> EFail(CALL_NON_FUNCTION, chain[1], ev)

\* A Value::apply that evaluates the body in the caller's environment.
apply_in_caller_scope(f, args, chain, d) ==
  LET ev == <<ApplyEvent(d, f, args, chain)>>
  IN CASE f.type = "LAMBDA" ->
            LET params == f.list[1].list
            IN IF Len(params) # Len(args)
               THEN EFail(IF Len(args) > Len(params) THEN TOO_MANY_ARGS ELSE TOO_FEW_ARGS,
                          chain[1], ev)
               ELSE LET b == bind_params(params, args, combine(chain[1], f.lambda_scope), d)
                    IN IF ~b.ok THEN EFail(INVALID_LAMBDA, chain[1], ev \o b.tr)
                       ELSE WithTr(ev \o b.tr,
                                   eval(f.list[2], Rechain(b.defs, chain), d + 1))
       [] f.type = "BUILTIN" -> WithTr(ev, call_builtin(f.b, args, chain, d))
       [] OTHER -> EFail(CALL_NON_FUNCTION, chain[1], ev)

apply(f, args, chain, d) ==
  LET ev == <<ApplyEvent(d, f, args, chain)>>
  IN CASE f.type = "LAMBDA" ->
            LET params == f.list[1].list
            IN IF Len(params) # Len(args)
               THEN EFail(IF Len(args) > Len(params) THEN TOO_MANY_ARGS ELSE TOO_FEW_ARGS,
                          chain[1], ev)
               ELSE LET b == bind_params(params, args, f.lambda_scope, d)
                    IN IF ~b.ok THEN EFail(INVALID_LAMBDA, chain[1], ev \o b.tr)
                       ELSE LET r == eval(f.list[2], <<b.defs>> \o chain, d + 1)
                            IN [r EXCEPT !.defs = chain[1], !.tr = ev \o b.tr \o @]
       [] f.type = "BUILTIN" -> WithTr(ev, call_builtin(f.b, args, chain, d))
       [] OTHER -> EFail(CALL_NON_FUNCTION, chain[1], ev)

\* ------------------------------------------------------------------------
\* Builtins (wisp.cpp 1047-1644)
\* ------------------------------------------------------------------------

\* Reading args[i] of a std::vector that is too short is undefined.
UB_VECTOR_READ == "undefined: read past the end of a vector"

arity_error(n, expected) == IF n > expected THEN TOO_MANY_ARGS ELSE TOO_FEW_ARGS

builtin_lambda(args, chain, d) ==
  IF Len(args) < 2 THEN EFail(TOO_FEW_ARGS, chain[1], <<>>)
  ELSE IF get_type_name(args[1]) # "list" THEN EFail(INVALID_LAMBDA, chain[1], <<>>)
  ELSE EOk(Lambda(args[1].list, args[2], chain), chain[1], <<>>)

\* An if that takes Unit for false as well.
if_unit_is_false(args, chain, d) ==
  IF Len(args) # 3 THEN EFail(arity_error(Len(args), 3), chain[1], <<>>)
  ELSE LET c == eval(args[1], chain, d + 1)
       IN IF ~c.ok THEN c
          ELSE IF as_bool(c.val) /\ c.val # Unit
               THEN WithTr(c.tr, eval(args[2], Rechain(c.defs, chain), d + 1))
               ELSE WithTr(c.tr, eval(args[3], Rechain(c.defs, chain), d + 1))

builtin_if_then_else(args, chain, d) ==
  IF Len(args) # 3 THEN EFail(arity_error(Len(args), 3), chain[1], <<>>)
  ELSE LET c == eval(args[1], chain, d + 1)
       IN IF ~c.ok THEN c
          ELSE IF as_bool(c.val)
               THEN WithTr(c.tr, eval(args[2], Rechain(c.defs, chain), d + 1))
               ELSE WithTr(c.tr, eval(args[3], Rechain(c.defs, chain), d + 1))

builtin_define(args, chain, d) ==
  IF Len(args) # 2 THEN EFail(arity_error(Len(args), 2), chain[1], <<>>)
  ELSE LET r == eval(args[2], chain, d + 1)
       IN IF ~r.ok THEN r
          ELSE LET e1 == set(r.defs, display(args[1]), r.val)
               IN EOk(r.val, e1, r.tr \o <<SetEvent(d, display(args[1]), r.val, e1)>>)

\* A defun whose Lambda captures nothing.
defun_without_capture(args, chain, d) ==
  IF Len(args) # 3 THEN EFail(arity_error(Len(args), 3), chain[1], <<>>)
  ELSE IF get_type_name(args[2]) # "list" THEN EFail(INVALID_LAMBDA, chain[1], <<>>)
  ELSE LET f == [Lambda(args[2].list, args[3], chain) EXCEPT !.lambda_scope = EmptyDefs]
           e1 == set(chain[1], display(args[1]), f)
       IN EOk(f, e1, <<SetEvent(d, display(args[1]), f, e1)>>)

builtin_defun(args, chain, d) ==
  IF Len(args) # 3 THEN EFail(arity_error(Len(args), 3), chain[1], <<>>)
  ELSE IF get_type_name(args[2]) # "list" THEN EFail(INVALID_LAMBDA, chain[1], <<>>)
  ELSE LET f == Lambda(args[2].list, args[3], chain)
           e1 == set(chain[1], display(args[1]), f)
       IN EOk(f, e1, <<SetEvent(d, display(args[1]), f, e1)>>)

\* One pass of the loop of for_loop per element of list (wisp.cpp 1118-1124).
for_iterate(list, args, acc, chain, d) ==
  IF list = <<>> THEN EOk(acc, chain[1], <<>>)
  ELSE IF args[1].type # "ATOM" THEN EFail(BAD_CAST, chain[1], <<>>)
  ELSE LET e1 == set(chain[1], args[1].str, Head(list))
           st == <<SetEvent(d, args[1].str, Head(list), e1)>>
           r == eval_block(SubSeq(args, 2, Len(args)), acc, Rechain(e1, chain), d + 1)
       IN IF ~r.ok THEN WithTr(st, r)
          ELSE WithTr(st \o r.tr,
                      for_iterate(Tail(list), args, r.val, Rechain(r.defs, chain), d))

builtin_for_loop(args, chain, d) ==
  IF Len(args) < 2 THEN EFail(UB_VECTOR_READ, chain[1], <<>>)
  ELSE LET lr == eval(args[2], chain, d + 1)
       IN IF ~lr.ok THEN lr
          ELSE IF lr.val.type # "LIST" THEN EFail(BAD_CAST, lr.defs, lr.tr)
          ELSE WithTr(lr.tr,
                      for_iterate(lr.val.list, args, Unit, Rechain(lr.defs, chain), d))

builtin_do_block(args, chain, d) == eval_block(args, Unit, chain, d + 1)

\* A scope that evaluates its body in the environment itself.
scope_in_place(args, chain, d) == eval_block(args, Unit, chain, d + 1)

builtin_scope(args, chain, d) ==
  LET e == chain[1]
      r == eval_block(args, Unit, Rechain(e, chain), d + 1)
  IN [r EXCEPT !.defs = chain[1]]

builtin_quote(args, chain, d) == EOk(MkList(args), chain[1], <<>>)

builtin_list(args, chain, d) ==
  LET a == eval_args(args, chain, d + 1)
  IN IF ~a.ok THEN EFail(a.err, a.defs, a.tr)
     ELSE EOk(MkList(a.vals), a.defs, a.tr)

\* acc = acc + args[i] over the remaining arguments.
fold_sum(acc, rest) ==
  IF rest = <<>> THEN RVal(acc)
  ELSE LET r == op_add(acc, Head(rest))
       IN IF ~r.ok THEN r ELSE fold_sum(r.val, Tail(rest))

fold_product(acc, rest) ==
  IF rest = <<>> THEN RVal(acc)
  ELSE LET r == op_mul(acc, Head(rest))
       IN IF ~r.ok THEN r ELSE fold_product(r.val, Tail(rest))

\* The end of a builtin that evaluated its arguments: throw or return.
finish(a, r) ==
  IF r.ok THEN EOk(r.val, a.defs, a.tr) ELSE EFail(r.err, a.defs, a.tr)

bool_value(c) == IF c.ok THEN RVal(MkInt(IF c.b THEN 1 ELSE 0)) ELSE RErr(c.err)

builtin_sum(args, chain, d) ==
  LET a == eval_args(args, chain, d + 1)
  IN IF ~a.ok THEN EFail(a.err, a.defs, a.tr)
     ELSE IF Len(a.vals) < 2 THEN EFail(TOO_FEW_ARGS, a.defs, a.tr)
     ELSE finish(a, fold_sum(a.vals[1], Tail(a.vals)))

builtin_product(args, chain, d) ==
  LET a == eval_args(args, chain, d + 1)
  IN IF ~a.ok THEN EFail(a.err, a.defs, a.tr)
     ELSE IF Len(a.vals) < 2 THEN EFail(TOO_FEW_ARGS, a.defs, a.tr)
     ELSE finish(a, fold_product(a.vals[1], Tail(a.vals)))

builtin_subtract(args, chain, d) ==
  LET a == eval_args(args, chain, d + 1)
  IN IF ~a.ok THEN EFail(a.err, a.defs, a.tr)
     ELSE IF Len(a.vals) # 2 THEN EFail(arity_error(Len(a.vals), 2), a.defs, a.tr)
     ELSE finish(a, op_sub(a.vals[1], a.vals[2]))

builtin_eq(args, chain, d) ==
  LET a == eval_args(args, chain, d + 1)
  IN IF ~a.ok THEN EFail(a.err, a.defs, a.tr)
     ELSE IF Len(a.vals) # 2 THEN EFail(arity_error(Len(a.vals), 2), a.defs, a.tr)
     ELSE finish(a, bool_value(BVal(op_eq(a.vals[1], a.vals[2]))))

builtin_neq(args, chain, d) ==
  LET a == eval_args(args, chain, d + 1)
  IN IF ~a.ok THEN EFail(a.err, a.defs, a.tr)
     ELSE IF Len(a.vals) # 2 THEN EFail(arity_error(Len(a.vals), 2), a.defs, a.tr)
     ELSE finish(a, bool_value(BVal(op_neq(a.vals[1], a.vals[2]))))

builtin_greater(args, chain, d) ==
  LET a == eval_args(args, chain, d + 1)
  IN IF ~a.ok THEN EFail(a.err, a.defs, a.tr)
     ELSE IF Len(a.vals) # 2 THEN EFail(arity_error(Len(a.vals), 2), a.defs, a.tr)
     ELSE finish(a, bool_value(op_gt(a.vals[1], a.vals[2])))

builtin_less(args, chain, d) ==
  LET a == eval_args(args, chain, d + 1)
  IN IF ~a.ok THEN EFail(a.err, a.defs, a.tr)
     ELSE IF Len(a.vals) # 2 THEN EFail(arity_error(Len(a.vals), 2), a.defs, a.tr)
     ELSE finish(a, bool_value(op_lt(a.vals[1], a.vals[2])))

builtin_greater_eq(args, chain, d) ==
  LET a == eval_args(args, chain, d + 1)
  IN IF ~a.ok THEN EFail(a.err, a.defs, a.tr)
     ELSE IF Len(a.vals) # 2 THEN EFail(arity_error(Len(a.vals), 2), a.defs, a.tr)
     ELSE finish(a, bool_value(op_ge(a.vals[1], a.vals[2])))

builtin_less_eq(args, chain, d) ==
  LET a == eval_args(args, chain, d + 1)
  IN IF ~a.ok THEN EFail(a.err, a.defs, a.tr)
     ELSE IF Len(a.vals) # 2 THEN EFail(arity_error(Len(a.vals), 2), a.defs, a.tr)
     ELSE finish(a, bool_value(op_le(a.vals[1], a.vals[2])))

\* The loop of range: push low while low < high (wisp.cpp 1638-1641).
range_loop(low, high, result) ==
  IF op_lt(low, high).b
  THEN range_loop(op_add(low, MkInt(1)).val, high, Append(result, low))
  ELSE result

builtin_range(args, chain, d) ==
  LET a == eval_args(args, chain, d + 1)
  IN IF ~a.ok THEN EFail(a.err, a.defs, a.tr)
     ELSE IF Len(a.vals) < 2 THEN EFail(UB_VECTOR_READ, a.defs, a.tr)
     ELSE IF ~is_number(a.vals[1]) \/ ~is_number(a.vals[2])
          THEN EFail(MISMATCHED_TYPES, a.defs, a.tr)
     ELSE IF op_ge(a.vals[1], a.vals[2]).b THEN EOk(MkList(<<>>), a.defs, a.tr)
     ELSE EOk(MkList(range_loop(a.vals[1], a.vals[2], <<>>)), a.defs, a.tr)

\* The call (stack_data.b)(args, env) of Value::apply, by function pointer.
\* An index that compares i with the size as a signed number and reads
\* list[i] for a negative i.
index_signed_compare(args, chain, d) ==
  LET a == eval_args(args, chain, d + 1)
  IN IF ~a.ok THEN EFail(a.err, a.defs, a.tr)
     ELSE IF Len(a.vals) # 2 THEN EFail(arity_error(Len(a.vals), 2), a.defs, a.tr)
     ELSE IF a.vals[1].type # "LIST" THEN EFail(BAD_CAST, a.defs, a.tr)
     ELSE LET i == cast_to_int(a.vals[2])
              list == a.vals[1].list
          IN IF ~i.ok THEN EFail(i.err, a.defs, a.tr)
             ELSE IF list = <<>> \/ i.val.i >= Len(list)
                  THEN EFail(INDEX_OUT_OF_RANGE, a.defs, a.tr)
             ELSE IF i.val.i < 0 THEN EFail(UB_VECTOR_READ, a.defs, a.tr)
             ELSE EOk(list[i.val.i + 1], a.defs, a.tr)

\* `i >= list.size()` compares the int i with a size_t: i is converted to an
\* unsigned value first, so every negative i is at least list.size().
builtin_index(args, chain, d) ==
  LET a == eval_args(args, chain, d + 1)
  IN IF ~a.ok THEN EFail(a.err, a.defs, a.tr)
     ELSE IF Len(a.vals) # 2 THEN EFail(arity_error(Len(a.vals), 2), a.defs, a.tr)
     ELSE IF a.vals[1].type # "LIST" THEN EFail(BAD_CAST, a.defs, a.tr)
     ELSE LET i == cast_to_int(a.vals[2])
              list == a.vals[1].list
          IN IF ~i.ok THEN EFail(i.err, a.defs, a.tr)
             ELSE IF list = <<>> \/ i.val.i < 0 \/ i.val.i >= Len(list)
                  THEN EFail(INDEX_OUT_OF_RANGE, a.defs, a.tr)
             ELSE EOk(list[i.val.i + 1], a.defs, a.tr)

\* Value::push on the copy args[0] (wisp.cpp 335-343).
push_all(v, rest) ==
  IF rest = <<>> THEN RVal(v)
  ELSE IF v.type # "LIST" THEN RErr(MISMATCHED_TYPES)
  ELSE push_all(MkList(Append(v.list, Head(rest))), Tail(rest))

builtin_push(args, chain, d) ==
  LET a == eval_args(args, chain, d + 1)
  IN IF ~a.ok THEN EFail(a.err, a.defs, a.tr)
     ELSE IF Len(a.vals) = 0 THEN EFail(TOO_FEW_ARGS, a.defs, a.tr)
     ELSE finish(a, push_all(a.vals[1], Tail(a.vals)))

\* Value::pop on the copy args[0] (wisp.cpp 345-357).
pop(v) ==
  IF v.type # "LIST" THEN RErr(MISMATCHED_TYPES)
  ELSE IF v.list = <<>> THEN RErr(UB_POP_EMPTY)
  ELSE RVal(v.list[Len(v.list)])

builtin_pop(args, chain, d) ==
  LET a == eval_args(args, chain, d + 1)
  IN IF ~a.ok THEN EFail(a.err, a.defs, a.tr)
     ELSE IF Len(a.vals) # 1 THEN EFail(arity_error(Len(a.vals), 1), a.defs, a.tr)
     ELSE finish(a, pop(a.vals[1]))

builtin_head(args, chain, d) ==
  LET a == eval_args(args, chain, d + 1)
  IN IF ~a.ok THEN EFail(a.err, a.defs, a.tr)
     ELSE IF Len(a.vals) # 1 THEN EFail(arity_error(Len(a.vals), 1), a.defs, a.tr)
     ELSE IF a.vals[1].type # "LIST" THEN EFail(BAD_CAST, a.defs, a.tr)
     ELSE IF a.vals[1].list = <<>> THEN EFail(INDEX_OUT_OF_RANGE, a.defs, a.tr)
     ELSE EOk(a.vals[1].list[1], a.defs, a.tr)

\* builtin::eval (wisp.cpp 1257-1264): the argument is evaluated as every
\* argument is, and its value is evaluated again in the same environment.
builtin_eval(args, chain, d) ==
  LET a == eval_args(args, chain, d + 1)
  IN IF ~a.ok THEN EFail(a.err, a.defs, a.tr)
     ELSE IF Len(a.vals) # 1 THEN EFail(arity_error(Len(a.vals), 1), a.defs, a.tr)
     ELSE WithTr(a.tr, eval(a.vals[1], Rechain(a.defs, chain), d + 1))

\* builtin::remove (wisp.cpp 1457-1470); i >= list.size() compares unsigned,
\* so a negative i is out of range.
builtin_remove(args, chain, d) ==
  LET a == eval_args(args, chain, d + 1)
  IN IF ~a.ok THEN EFail(a.err, a.defs, a.tr)
     ELSE IF Len(a.vals) # 2 THEN EFail(arity_error(Len(a.vals), 2), a.defs, a.tr)
     ELSE IF a.vals[1].type # "LIST" THEN EFail(BAD_CAST, a.defs, a.tr)
     ELSE LET i == cast_to_int(a.vals[2])
              list == a.vals[1].list
          IN IF ~i.ok THEN EFail(i.err, a.defs, a.tr)
             ELSE IF list = <<>> \/ i.val.i < 0 \/ i.val.i >= Len(list)
                  THEN EFail(INDEX_OUT_OF_RANGE, a.defs, a.tr)
             ELSE EOk(MkList(SubSeq(list, 1, i.val.i) \o SubSeq(list, i.val.i + 2, Len(list))),
                      a.defs, a.tr)

\* The loop of map_list: result.push_back(args[0].apply({ l[i] }, env)).
map_loop(f, l, result, chain, d) ==
  IF l = <<>> THEN EOk(MkList(result), chain[1], <<>>)
  ELSE LET r == apply(f, <<Head(l)>>, chain, d + 1)
       IN IF ~r.ok THEN r
          ELSE WithTr(r.tr, map_loop(f, Tail(l), Append(result, r.val),
                                     Rechain(r.defs, chain), d))

\* builtin::map_list (wisp.cpp 1583-1594): no check of the number of
\* arguments before args[1] is read.
builtin_map_list(args, chain, d) ==
  LET a == eval_args(args, chain, d + 1)
  IN IF ~a.ok THEN EFail(a.err, a.defs, a.tr)
     ELSE IF Len(a.vals) < 2 THEN EFail(UB_VECTOR_READ, a.defs, a.tr)
     ELSE IF a.vals[2].type # "LIST" THEN EFail(BAD_CAST, a.defs, a.tr)
     ELSE WithTr(a.tr, map_loop(a.vals[1], a.vals[2].list, <<>>,
                                Rechain(a.defs, chain), d))

\* The loop of filter_list: l[i] is kept when args[0].apply({ l[i] }, env)
\* is not equal to 0.
filter_loop(f, l, result, chain, d) ==
  IF l = <<>> THEN EOk(MkList(result), chain[1], <<>>)
  ELSE LET r == apply(f, <<Head(l)>>, chain, d + 1)
       IN IF ~r.ok THEN r
          ELSE WithTr(r.tr,
                      filter_loop(f, Tail(l),
                                  IF as_bool(r.val) THEN Append(result, Head(l)) ELSE result,
                                  Rechain(r.defs, chain), d))

\* builtin::filter_list (wisp.cpp 1596-1608)
builtin_filter_list(args, chain, d) ==
  LET a == eval_args(args, chain, d + 1)
  IN IF ~a.ok THEN EFail(a.err, a.defs, a.tr)
     ELSE IF Len(a.vals) < 2 THEN EFail(UB_VECTOR_READ, a.defs, a.tr)
     ELSE IF a.vals[2].type # "LIST" THEN EFail(BAD_CAST, a.defs, a.tr)
     ELSE WithTr(a.tr, filter_loop(a.vals[1], a.vals[2].list, <<>>,
                                   Rechain(a.defs, chain), d))

\* The loop of reduce_list: acc = args[0].apply({ acc, l[i] }, env).
reduce_loop(f, l, acc, chain, d) ==
  IF l = <<>> THEN EOk(acc, chain[1], <<>>)
  ELSE LET r == apply(f, <<acc, Head(l)>>, chain, d + 1)
       IN IF ~r.ok THEN r
          ELSE WithTr(r.tr, reduce_loop(f, Tail(l), r.val, Rechain(r.defs, chain), d))

\* builtin::reduce_list (wisp.cpp 1610-1623)
builtin_reduce_list(args, chain, d) ==
  LET a == eval_args(args, chain, d + 1)
  IN IF ~a.ok THEN EFail(a.err, a.defs, a.tr)
     ELSE IF Len(a.vals) < 3 THEN EFail(UB_VECTOR_READ, a.defs, a.tr)
     ELSE IF a.vals[3].type # "LIST" THEN EFail(BAD_CAST, a.defs, a.tr)
     ELSE WithTr(a.tr, reduce_loop(a.vals[1], a.vals[3].list, a.vals[2],
                                   Rechain(a.defs, chain), d))

call_builtin(b, args, chain, d) ==
  CASE b = "builtin::lambda" -> builtin_lambda(args, chain, d)
    [] b = "builtin::if_then_else" -> builtin_if_then_else(args, chain, d)
    [] b = "builtin::define" -> builtin_define(args, chain, d)
    [] b = "builtin::defun" -> builtin_defun(args, chain, d)
    [] b = "builtin::for_loop" -> builtin_for_loop(args, chain, d)
    [] b = "builtin::do_block" -> builtin_do_block(args, chain, d)
    [] b = "builtin::scope" -> builtin_scope(args, chain, d)
    [] b = "builtin::quote" -> builtin_quote(args, chain, d)
    [] b = "builtin::list" -> builtin_list(args, chain, d)
    [] b = "builtin::sum" -> builtin_sum(args, chain, d)
    [] b = "builtin::subtract" -> builtin_subtract(args, chain, d)
    [] b = "builtin::product" -> builtin_product(args, chain, d)
    [] b = "builtin::eq" -> builtin_eq(args, chain, d)
    [] b = "builtin::neq" -> builtin_neq(args, chain, d)
    [] b = "builtin::greater" -> builtin_greater(args, chain, d)
    [] b = "builtin::less" -> builtin_less(args, chain, d)
    [] b = "builtin::greater_eq" -> builtin_greater_eq(args, chain, d)
    [] b = "builtin::less_eq" -> builtin_less_eq(args, chain, d)
    [] b = "builtin::range" -> builtin_range(args, chain, d)
    [] b = "builtin::index" -> builtin_index(args, chain, d)
    [] b = "builtin::push" -> builtin_push(args, chain, d)
    [] b = "builtin::pop" -> builtin_pop(args, chain, d)
    [] b = "builtin::head" -> builtin_head(args, chain, d)
    [] b = "builtin::eval" -> builtin_eval(args, chain, d)
    [] b = "builtin::remove" -> builtin_remove(args, chain, d)
    [] b = "builtin::map_list" -> builtin_map_list(args, chain, d)
    [] b = "builtin::filter_list" -> builtin_filter_list(args, chain, d)
    [] b = "builtin::reduce_list" -> builtin_reduce_list(args, chain, d)

\* ------------------------------------------------------------------------
\* The parser (wisp.cpp 107-109, 908-1031).  A text is a sequence of
\* characters; ptr counts from 0 as in the code.
\* ------------------------------------------------------------------------

MALFORMED_PROGRAM == "malformed program"
\* The scan for the closing quote of a string literal steps over the
\* character after a backslash and can read past the terminating NUL.
UB_STRING_READ == "undefined: read past the end of a string"

\* s[len] is the terminating NUL of the std::string.
NUL == "NUL"
At(s, ptr) == IF ptr >= 0 /\ ptr < Len(s) THEN s[ptr + 1] ELSE NUL

\* std::string::substr(pos, count) and erase(pos, count): count is cut at
\* the end of the string.
substr(s, pos, count) ==
  SubSeq(s, pos + 1, IF pos + count > Len(s) THEN Len(s) ELSE pos + count)
erase(s, pos, count) == SubSeq(s, 1, pos) \o SubSeq(s, pos + count + 1, Len(s))

isspace(c) == c \in {" ", "\n", "\t"}
isdigit(c) == \E i \in 1..10 : Digits[i] = c
isalpha(c) ==
  c \in {"a", "b", "c", "d", "e", "f", "g", "h", "i", "j", "k", "l", "m", "n", "o",
         "p", "q", "r", "s", "t", "u", "v", "w", "x", "y", "z"}
ispunct(c) ==
  c \in {"!", "\"", "#", "$", "%", "&", "'", "(", ")", "*", "+", ",", "-", ".", "/",
         ":", ";", "<", "=", ">", "?", "@", "[", "\\", "]", "^", "_", "{", "|", "}", "~"}
is_symbol(c) == (isalpha(c) \/ ispunct(c)) /\ c \notin {"(", ")", "\"", "'"}

skip_whitespace(s, ptr) == IF isspace(At(s, ptr)) THEN skip_whitespace(s, ptr + 1) ELSE ptr

\* while (s[save_ptr] != '\n' && save_ptr < len) save_ptr++
end_of_line(s, ptr) ==
  IF At(s, ptr) # "\n" /\ ptr < Len(s) THEN end_of_line(s, ptr + 1) ELSE ptr

\* while (isdigit(s[ptr]) || s[ptr] == '.') ptr++
end_of_number(s, ptr) ==
  IF isdigit(At(s, ptr)) \/ At(s, ptr) = "." THEN end_of_number(s, ptr + 1) ELSE ptr

\* while (is_symbol(s[ptr + n])) n++
end_of_symbol(s, ptr) == IF is_symbol(At(s, ptr)) THEN end_of_symbol(s, ptr + 1) ELSE ptr

digit_value(c) == CHOOSE i \in 0..9 : Digits[i + 1] = c

\* The value of the digits at the front of n after acc, with their count.
leading_digits(n, acc, count) ==
  IF n # <<>> /\ isdigit(Head(n))
  THEN leading_digits(Tail(n), 10 * acc + digit_value(Head(n)), count + 1)
  ELSE [value |-> acc, count |-> count, rest |-> n]

Pow10(k) == IF k = 0 THEN 1 ELSE 10 * Pow10(k - 1)

\* atoi and atof of a text that starts with a digit: the longest prefix
\* that is a number, here digits, and for atof a '.' and more digits (the
\* texts parsed have no exponent and no hexadecimal prefix after the
\* digits).
atoi(n) == leading_digits(n, 0, 0).value
atof(n) ==
  LET ip == leading_digits(n, 0, 0)
  IN IF ip.rest # <<>> /\ Head(ip.rest) = "."
     THEN LET fp == leading_digits(Tail(ip.rest), ip.value, 0)
          IN Norm(fp.value, Pow10(fp.count))
     ELSE Norm(ip.value, 1)

POk(v, s, ptr) == [ok |-> TRUE, val |-> v, err |-> "", s |-> s, ptr |-> ptr]
PFail(e, s, ptr) == [ok |-> FALSE, val |-> Unit, err |-> e, s |-> s, ptr |-> ptr]

\* The comment loop at the head of parse: the comment is erased from s up
\* to its newline; parse returns Unit when at most one character is left.
skip_comments(s, ptr) ==
  IF At(s, ptr) # ";" THEN [s |-> s, ptr |-> ptr, unit |-> FALSE]
  ELSE LET s1 == erase(s, ptr, end_of_line(s, ptr) - ptr)
           p1 == skip_whitespace(s1, ptr)
       IN IF Len(s1) - p1 <= 1 THEN [s |-> s1, ptr |-> p1, unit |-> TRUE]
          ELSE skip_comments(s1, p1)

\* The length n of a string literal at ptr up to its closing quote.
end_of_string(s, ptr, n) ==
  IF ptr + n > Len(s) THEN [ok |-> FALSE, err |-> UB_STRING_READ, n |-> n]
  ELSE IF At(s, ptr + n) = "\"" THEN [ok |-> TRUE, err |-> "", n |-> n]
  ELSE IF ptr + n >= Len(s) THEN [ok |-> FALSE, err |-> MALFORMED_PROGRAM, n |-> n]
  ELSE end_of_string(s, ptr, IF At(s, ptr + n) = "\\" THEN n + 2 ELSE n + 1)

\* The escapes \\, \", \n and \t of a string literal.
unescape(x) ==
  IF x = <<>> THEN <<>>
  ELSE IF Head(x) = "\\" /\ Len(x) >= 2 /\ x[2] \in {"\\", "\"", "n", "t"}
       THEN <<CASE x[2] = "n" -> "\n" [] x[2] = "t" -> "\t" [] OTHER -> x[2]>>
            \o unescape(SubSeq(x, 3, Len(x)))
  ELSE <<Head(x)>> \o unescape(Tail(x))

\* The number at ptr: the lexeme ends at the first character that is
\* neither a digit nor '.', but n = s.substr(save_ptr, ptr) takes ptr
\* characters from save_ptr, not ptr - save_ptr, so n runs on into the
\* text after the lexeme.
parse_number(s, ptr) ==
  LET negate == At(s, ptr) = "-"
      save_ptr == IF negate THEN ptr + 1 ELSE ptr
      end == end_of_number(s, save_ptr)
      n == substr(s, save_ptr, end)
      sign == IF negate THEN -1 ELSE 1
  IN POk(IF \E i \in DOMAIN n : n[i] = "."
         THEN MkFloat(<<sign * atof(n)[1], atof(n)[2]>>)
         ELSE MkInt(sign * atoi(n)),
         s, skip_whitespace(s, end))

parse_string(s, ptr) ==
  LET e == end_of_string(s, ptr, 1)
  IN IF ~e.ok THEN PFail(e.err, s, ptr)
     ELSE POk(string(unescape(substr(s, ptr + 1, e.n - 1))),
              s, skip_whitespace(s, ptr + e.n + 1))

parse(s0, ptr0) ==
  LET c == skip_comments(s0, skip_whitespace(s0, ptr0))
      s == c.s
      ptr == c.ptr
      ch == At(s, ptr)
  IN IF c.unit \/ s = <<>> THEN POk(Unit, s, ptr)
     ELSE IF ch = "'"
          THEN LET r == parse(s, ptr + 1)
               IN IF r.ok THEN POk(quote(r.val), r.s, r.ptr) ELSE r
     ELSE IF ch = "(" THEN parse_list(s, skip_whitespace(s, ptr + 1), <<>>)
     ELSE IF isdigit(ch) \/ (ch = "-" /\ isdigit(At(s, ptr + 1))) THEN parse_number(s, ptr)
     ELSE IF ch = "\"" THEN parse_string(s, ptr)
     ELSE IF ch = "@" THEN POk(Unit, s, skip_whitespace(s, ptr + 1))
     ELSE IF is_symbol(ch)
          THEN LET e == end_of_symbol(s, ptr)
               IN POk(atom(substr(s, ptr, e - ptr)), s, skip_whitespace(s, e))
     ELSE PFail(MALFORMED_PROGRAM, s, ptr)

\* while (s[ptr] != ')') result.push(parse(s, ptr))
parse_list(s, ptr, result) ==
  IF At(s, ptr) = ")" THEN POk(MkList(result), s, skip_whitespace(s, ptr + 1))
  ELSE LET r == parse(s, ptr)
       IN IF ~r.ok THEN r ELSE parse_list(r.s, r.ptr, Append(result, r.val))

\* The loop of parse(std::string): it goes on while the pointer moves and
\* has not reached the last character.
parse_loop(s, i, last_i, result) ==
  IF last_i # i /\ i <= Len(s) - 1
  THEN LET r == parse(s, i)
       IN IF ~r.ok THEN [ok |-> FALSE, vals |-> <<>>, err |-> r.err]
          ELSE parse_loop(r.s, r.ptr, i, Append(result, r.val))
  ELSE IF i < Len(s) THEN [ok |-> FALSE, vals |-> <<>>, err |-> MALFORMED_PROGRAM]
  ELSE [ok |-> TRUE, vals |-> result, err |-> ""]

parse_all(s) == parse_loop(s, 0, -1, <<>>)

\* ------------------------------------------------------------------------
\* The expressions the top level evaluates
\* ------------------------------------------------------------------------

n_x == <<"x">>
n_y == <<"y">>
n_z == <<"z">>
n_f == <<"f">>
n_g == <<"g">>
n_i == <<"i">>
n_a == <<"a">>
n_b == <<"b">>
n_plus == <<"+">>
n_cmd_args == <<"c", "m", "d", "-", "a", "r", "g", "s">>

a_define == atom(<<"d", "e", "f", "i", "n", "e">>)
a_defun == atom(<<"d", "e", "f", "u", "n">>)
a_lambda == atom(<<"l", "a", "m", "b", "d", "a">>)
a_for == atom(<<"f", "o", "r">>)
a_scope == atom(<<"s", "c", "o", "p", "e">>)
a_list == atom(<<"l", "i", "s", "t">>)
a_plus == atom(n_plus)
a_x == atom(n_x)
a_y == atom(n_y)
a_z == atom(n_z)
a_f == atom(n_f)
a_g == atom(n_g)
a_i == atom(n_i)
a_a == atom(n_a)
a_b == atom(n_b)

L(l) == MkList(l)

\* (define x 1), (define y x), (define + 0),
\* (define g (lambda () y))
DefinePrograms ==
  { L(<<a_define, a_x, MkInt(1)>>),
    L(<<a_define, a_y, a_x>>),
    L(<<a_define, a_plus, MkInt(0)>>),
    L(<<a_define, a_g, L(<<a_lambda, L(<<>>), a_y>>)>>) }

\* (defun f (a) (+ a x)), (defun + (a) a)
DefunPrograms ==
  { L(<<a_defun, a_f, L(<<a_a>>), L(<<a_plus, a_a, a_x>>)>>),
    L(<<a_defun, a_plus, L(<<a_a>>), a_a>>) }

\* (for i (list 1 2) (define y i)), (for + (list 5) +)
ForPrograms ==
  { L(<<a_for, a_i, L(<<a_list, MkInt(1), MkInt(2)>>), L(<<a_define, a_y, a_i>>)>>),
    L(<<a_for, a_plus, L(<<a_list, MkInt(5)>>), a_plus>>) }

\* (scope (define x 20) x), (scope (define z 5) (+ x z)), (scope +)
ScopePrograms ==
  { L(<<a_scope, L(<<a_define, a_x, MkInt(20)>>), a_x>>),
    L(<<a_scope, L(<<a_define, a_z, MkInt(5)>>), L(<<a_plus, a_x, a_z>>)>>),
    L(<<a_scope, a_plus>>) }

\* +, x
AtomPrograms == { a_plus, a_x }

\* (f 1), (f), (f 1 2), ((lambda (a) +) 1),
\* ((lambda (a b) (list a b)) (define x 3) x), (1 x), (),
\* ((lambda (y) (g)) 7), ((lambda (x) ((lambda (b) x) 2)) 7)
CallPrograms ==
  { L(<<a_f, MkInt(1)>>),
    L(<<a_f>>),
    L(<<a_f, MkInt(1), MkInt(2)>>),
    L(<<L(<<a_lambda, L(<<a_a>>), a_plus>>), MkInt(1)>>),
    L(<<L(<<a_lambda, L(<<a_a, a_b>>), L(<<a_list, a_a, a_b>>)>>),
        L(<<a_define, a_x, MkInt(3)>>), a_x>>),
    L(<<MkInt(1), a_x>>),
    L(<<>>),
    L(<<L(<<a_lambda, L(<<a_y>>), L(<<a_g>>)>>), MkInt(7)>>),
    L(<<L(<<a_lambda, L(<<a_x>>),
            L(<<L(<<a_lambda, L(<<a_b>>), a_x>>), MkInt(2)>>)>>),
        MkInt(7)>>) }

\* ------------------------------------------------------------------------
\* The interpreter session: main's root environment and the expressions
\* evaluated in it one after another (wisp.cpp 1034-1044, 1668-1676,
\* 1785-1790)
\* ------------------------------------------------------------------------

NoOutcome == [ok |-> TRUE, val |-> Unit, err |-> ""]

\* main: env.set("cmd-args", Value(args)), argv = { "wisp" }.
RootEnv == set(EmptyDefs, n_cmd_args, MkList(<<string(<<"w", "i", "s", "p">>)>>))

OpsIdle == lhs = Unit /\ rhs = Unit /\ op = "" /\ res = RVal(Unit)

NotParsed == [ok |-> TRUE, vals |-> <<>>, err |-> "not parsed"]
NoFile == <<"no file">>
\* The process has not returned from main; main returns 0 (wisp.cpp 1812);
\* the process was killed by a signal.
Running == "running"
ExitZero == "exit status 0"
Killed == "killed by a signal"
ParseIdle == lexemes = <<>> /\ source = <<>> /\ parsed = NotParsed
MainIdle ==
  /\ mode = ""
  /\ code = <<>>
  /\ file = NoFile
  /\ exit_status = Running
  /\ reports = <<>>
  /\ inputs = <<>>

Init ==
  /\ env = RootEnv
  /\ prev_env = RootEnv
  /\ expr = Unit
  /\ out = NoOutcome
  /\ trace = <<>>
  /\ steps = 0
  /\ OpsIdle
  /\ ParseIdle
  /\ MainIdle

\* One expression is evaluated in the root environment; an Error is caught by
\* the caller and the session goes on with the environment as it was left.
EvalTop(p) ==
  /\ steps < MaxSteps
  /\ \E r \in {eval(p, <<env>>, 0)} :
       /\ env' = r.defs
       /\ out' = [ok |-> r.ok, val |-> r.val, err |-> r.err]
       /\ trace' = r.tr
  /\ prev_env' = env
  /\ expr' = p
  /\ steps' = steps + 1
  /\ UNCHANGED <<lhs, rhs, op, res, front>>

EvalDefine == \E p \in DefinePrograms : EvalTop(p)
EvalDefun == \E p \in DefunPrograms : EvalTop(p)
EvalFor == \E p \in ForPrograms : EvalTop(p)
EvalScope == \E p \in ScopePrograms : EvalTop(p)
EvalAtom == \E p \in AtomPrograms : EvalTop(p)
EvalCall == \E p \in CallPrograms : EvalTop(p)

Next == EvalDefine \/ EvalDefun \/ EvalFor \/ EvalScope \/ EvalAtom \/ EvalCall

Spec == Init /\ [][Next]_vars

\* ------------------------------------------------------------------------
\* The binary operators of Value applied to a pair of operands
\* ------------------------------------------------------------------------

IntOperands == {MkInt(i) : i \in -MaxInt..MaxInt}
FloatOperands == {MkFloat(<<0, 1>>), MkFloat(<<3, 2>>), MkFloat(<<2, 1>>), MkFloat(<<-1, 2>>)}
OtherOperands ==
  { Unit, string(<<>>), string(<<"a">>), MkList(<<>>), MkList(<<MkInt(1)>>),
    a_x, quote(a_x), Lambda(<<a_a>>, a_a, <<EmptyDefs>>),
    reserved_value(n_plus) }
Operands == IntOperands \cup FloatOperands \cup OtherOperands

InitOps ==
  /\ env = RootEnv
  /\ prev_env = RootEnv
  /\ expr = Unit
  /\ out = NoOutcome
  /\ trace = <<>>
  /\ steps = 0
  /\ lhs \in Operands
  /\ rhs \in Operands
  /\ op = ""
  /\ res = RVal(Unit)
  /\ ParseIdle
  /\ MainIdle

Applied(name) ==
  /\ op' = name
  /\ UNCHANGED <<lhs, rhs, env, prev_env, expr, out, trace, steps, front>>

Add == res' = op_add(lhs, rhs) /\ Applied("+")
Sub == res' = op_sub(lhs, rhs) /\ Applied("-")
Mul == res' = op_mul(lhs, rhs) /\ Applied("*")
Div == \E ub \in DivZeroOutcomes : res' = op_div(lhs, rhs, ub) /\ Applied("/")
Mod == \E ub \in DivZeroOutcomes : res' = op_mod(lhs, rhs, ub) /\ Applied("%")
Less == res' = op_lt(lhs, rhs) /\ Applied("<")
LessEq == res' = op_le(lhs, rhs) /\ Applied("<=")
Greater == res' = op_gt(lhs, rhs) /\ Applied(">")
GreaterEq == res' = op_ge(lhs, rhs) /\ Applied(">=")

NextOps == Add \/ Sub \/ Mul \/ Div \/ Mod \/ Less \/ LessEq \/ Greater \/ GreaterEq

SpecOps == InitOps /\ [][NextOps]_vars

\* ------------------------------------------------------------------------
\* One expression evaluated in an environment that binds x to a List and n
\* to 0 (Value::eval, wisp.cpp 876-912)
\* ------------------------------------------------------------------------

n_n == <<"n">>
a_n == atom(n_n)
a_if == atom(<<"i", "f">>)
a_do == atom(<<"d", "o">>)
a_index == atom(<<"i", "n", "d", "e", "x">>)
a_push == atom(<<"p", "u", "s", "h">>)
a_pop == atom(<<"p", "o", "p">>)
a_head == atom(<<"h", "e", "a", "d">>)

\* The Lists (1 .. k).
Lists == {MkList([i \in 1..k |-> MkInt(i)]) : k \in 0..MaxInt}

EvalEnvs == {set(set(RootEnv, n_x, l), n_n, MkInt(0)) : l \in Lists}

InitEval ==
  /\ env \in EvalEnvs
  /\ prev_env = env
  /\ expr = Unit
  /\ out = NoOutcome
  /\ trace = <<>>
  /\ steps = 0
  /\ OpsIdle
  /\ ParseIdle
  /\ MainIdle

\* What the process does once the evaluation r has run into undefined
\* behaviour: it is killed, or it goes on with some Value.
Outcomes(r) ==
  IF ~r.ok /\ r.err \in {UB_POP_EMPTY, UB_VECTOR_READ, UB_FLOAT_TO_INT, UB_STRING_READ}
  THEN { r, EOk(Unit, r.defs, r.tr), EOk(MkInt(0), r.defs, r.tr) }
  ELSE { r }

Outcome(r) == [ok |-> r.ok, val |-> r.val, err |-> r.err]

EvalOnce(p) ==
  /\ steps = 0
  /\ \E r \in Outcomes(eval(p, <<env>>, 0)) :
       /\ env' = r.defs
       /\ out' = Outcome(r)
       /\ trace' = r.tr
  /\ prev_env' = env
  /\ expr' = p
  /\ steps' = 1
  /\ UNCHANGED <<lhs, rhs, op, res, front>>

\* The conditions 0, 1, 0.0, 2.5, @, "", (list), x, n, (define n 1), (q)
Conditions ==
  { MkInt(0), MkInt(1), MkFloat(<<0, 1>>), MkFloat(<<5, 2>>), Unit, string(<<>>),
    L(<<a_list>>), a_x, a_n, L(<<a_define, a_n, MkInt(1)>>), L(<<atom(<<"q">>)>>) }

then_branch == L(<<a_define, a_y, MkInt(1)>>)
else_branch == L(<<a_define, a_z, MkInt(2)>>)

\* (if c (define y 1) (define z 2)) for each condition c, and if with
\* zero, one, two and four arguments
IfPrograms ==
  { L(<<a_if, c, then_branch, else_branch>>) : c \in Conditions }
  \cup { L(<<a_if>>), L(<<a_if, then_branch>>), L(<<a_if, then_branch, else_branch>>),
         L(<<a_if, MkInt(1), then_branch, else_branch, then_branch>>) }

EvalIf == \E p \in IfPrograms : EvalOnce(p)

\* (for i x (define y i)), (for i (list 1 2) (define z i) (+ i 1)),
\* (for i (do (define n (+ n 1)) x) i)
ForLoopPrograms ==
  { L(<<a_for, a_i, a_x, L(<<a_define, a_y, a_i>>)>>),
    L(<<a_for, a_i, L(<<a_list, MkInt(1), MkInt(2)>>),
        L(<<a_define, a_z, a_i>>), L(<<a_plus, a_i, MkInt(1)>>)>>),
    L(<<a_for, a_i,
        L(<<a_do, L(<<a_define, a_n, L(<<a_plus, a_n, MkInt(1)>>)>>), a_x>>),
        a_i>>) }

EvalForLoop == \E p \in ForLoopPrograms : EvalOnce(p)

\* The names f, + and 5, the parameter forms (a), (), (a 1) and 5, and the
\* bodies (+ a x), n and (q)
FunctionNames == { a_f, a_plus, MkInt(5) }
ParameterForms == { L(<<a_a>>), L(<<>>), L(<<a_a, MkInt(1)>>), MkInt(5) }
Bodies == { L(<<a_plus, a_a, a_x>>), a_n, L(<<atom(<<"q">>)>>) }

\* (defun name params body)
DefunForms ==
  { L(<<a_defun, name, params, body>>) :
      name \in FunctionNames, params \in ParameterForms, body \in Bodies }

\* (define name (lambda params body)) for the form (defun name params body)
define_lambda(form) ==
  L(<<a_define, form.list[2], L(<<a_lambda, form.list[3], form.list[4]>>)>>)

EvalDefunForm == \E p \in DefunForms : EvalOnce(p)

\* (push x), (push x 3), (push x 3 n), (pop x)
PushPrograms ==
  { L(<<a_push, a_x>>), L(<<a_push, a_x, MkInt(3)>>), L(<<a_push, a_x, MkInt(3), a_n>>) }
PopPrograms == { L(<<a_pop, a_x>>) }

EvalPushPop == \E p \in PushPrograms \cup PopPrograms : EvalOnce(p)

\* (index x i) for the integers i from -2 to MaxInt + 1, and (head x)
IndexPrograms == { L(<<a_index, a_x, MkInt(i)>>) : i \in -2..(MaxInt + 1) }
HeadPrograms == { L(<<a_head, a_x>>) }

EvalIndex == \E p \in IndexPrograms \cup HeadPrograms : EvalOnce(p)

a_eval == atom(<<"e", "v", "a", "l">>)
a_map == atom(<<"m", "a", "p">>)
a_filter == atom(<<"f", "i", "l", "t", "e", "r">>)
a_reduce == atom(<<"r", "e", "d", "u", "c", "e">>)
a_remove == atom(<<"r", "e", "m", "o", "v", "e">>)
a_last == atom(<<"l", "a", "s", "t">>)
a_eq == atom(<<"=">>)
a_minus == atom(<<"-">>)
a_h == atom(<<"h">>)
a_q == atom(<<"q">>)

\* (do e1 ... ek), (define name v) and (lambda (params) body)
Do(exprs) == L(<<a_do>> \o exprs)
Def(name, v) == L(<<a_define, name, v>>)
Lam(params, body) == L(<<a_lambda, L(params), body>>)

\* 'e for Values e of every tag: a bound and an unbound Atom, Lists that
\* would define or call, a Quote, numbers, a String, Unit and a Lambda.
Quoted ==
  { a_x, a_y, L(<<a_define, a_y, MkInt(1)>>), L(<<a_q>>), L(<<>>), quote(a_x),
    MkInt(1), MkFloat(<<5, 2>>), string(<<"a">>), Unit,
    Lambda(<<a_a>>, a_a, <<EmptyDefs>>) }
QuotePrograms == { quote(e) : e \in Quoted } \cup { L(<<a_list, quote(a_y), quote(quote(a_x))>>) }

EvalQuote == \E p \in QuotePrograms : EvalOnce(p)

\* A Lambda whose body evaluates a value built at run time, by eval of its
\* argument, and one whose body calls a function that reads y.
ViaEval == Do(<<Def(a_f, Lam(<<a_a>>, L(<<a_eval, a_a>>))), L(<<a_f, quote(a_x)>>)>>)
ViaCallee ==
  Do(<<Def(a_g, Lam(<<>>, a_y)), Def(a_y, MkInt(1)), Def(a_f, Lam(<<>>, L(<<a_g>>))),
       L(<<a_f>>)>>)

\* y is defined after f is constructed; f is called from the body of g,
\* whose parameter is y; f calls itself.
LaterDefinition == Do(<<Def(a_f, Lam(<<>>, a_y)), Def(a_y, MkInt(1)), L(<<a_f>>)>>)
CallerScope ==
  Do(<<Def(a_f, Lam(<<>>, a_y)), Def(a_g, Lam(<<a_y>>, L(<<a_f>>))), L(<<a_g, MkInt(5)>>)>>)
Countdown ==
  Lam(<<a_a>>, L(<<a_if, L(<<a_eq, a_a, MkInt(0)>>), MkInt(0),
                   L(<<a_f, L(<<a_minus, a_a, MkInt(1)>>)>>)>>))
Recursion == { Do(<<Def(a_f, Countdown), L(<<a_f, MkInt(k)>>)>>) : k \in 0..1 }

\* A body that defines x, defines a function h, loops with for and calls h,
\* and a body that defines x and then fails.
BodyDefines ==
  Do(<<Def(a_f, Lam(<<a_a>>,
                    Do(<<Def(a_x, MkInt(9)),
                         L(<<a_defun, a_h, L(<<a_b>>), a_b>>),
                         L(<<a_for, a_i, L(<<a_list, MkInt(1), MkInt(2)>>), Def(a_n, a_i)>>),
                         L(<<a_h, a_a>>)>>))),
       L(<<a_f, MkInt(5)>>)>>)
BodyFails ==
  Do(<<Def(a_f, Lam(<<a_a>>, Do(<<Def(a_x, MkInt(9)), L(<<a_q>>)>>))), L(<<a_f, MkInt(5)>>)>>)

ClosurePrograms ==
  { ViaEval, ViaCallee, LaterDefinition, CallerScope, BodyDefines, BodyFails }
    \cup Recursion

EvalClosure == \E p \in ClosurePrograms : EvalOnce(p)

\* (map f l), (filter f l) and (reduce f 0 l) for the Builtins head, list
\* and + and Lists of Ints, of an Atom, of a Quote and of a List.
Functions == { a_head, a_list, a_plus }
ListForms ==
  { L(<<a_list, MkInt(1), MkInt(2)>>),
    L(<<a_list, quote(a_n), MkInt(1)>>),
    L(<<a_list, quote(quote(a_n))>>),
    L(<<a_list, a_x, L(<<a_list, MkInt(1), MkInt(2)>>)>>) }
MapPrograms ==
  { L(<<m, f, l>>) : m \in {a_map, a_filter}, f \in Functions, l \in ListForms }
    \cup { L(<<a_reduce, f, MkInt(0), l>>) : f \in Functions, l \in ListForms }

\* The same call with (lambda (a) (f a)), for reduce (lambda (a b) (f a b)),
\* in the place of f.
wrapped(form) ==
  IF form.list[1] = a_reduce
  THEN L(<<a_reduce, Lam(<<a_a, a_b>>, L(<<form.list[2], a_a, a_b>>)),
           form.list[3], form.list[4]>>)
  ELSE L(<<form.list[1], Lam(<<a_a>>, L(<<form.list[2], a_a>>)), form.list[3]>>)

EvalMap == \E p \in MapPrograms : EvalOnce(p)

\* (last x) and (remove x i) for the integers i from -1 to MaxInt
RemovePrograms == { L(<<a_last, a_x>>) } \cup { L(<<a_remove, a_x, MkInt(i)>>) : i \in -1..MaxInt }

EvalRemove == \E p \in RemovePrograms : EvalOnce(p)

NextEval ==
  \/ EvalIf \/ EvalForLoop \/ EvalDefunForm \/ EvalPushPop \/ EvalIndex
  \/ EvalQuote \/ EvalClosure \/ EvalMap \/ EvalRemove
SpecEval == InitEval /\ [][NextEval]_vars

\* ------------------------------------------------------------------------
\* The parser applied to a source text made of a few lexemes
\* (parse(std::string), wisp.cpp 1014-1031)
\* ------------------------------------------------------------------------

MaxLexemes == 4

\* "(+ ", "1 ", "2.5 ", "-3 ", "x ", ")" and the comment ";c" with its
\* newline
NumberLexemes == { <<"1", " ">>, <<"2", ".", "5", " ">>, <<"-", "3", " ">> }
CommentLexeme == <<";", "c", "\n">>
\* A double quote followed by a, which opens or closes a string literal,
\* and a backslash
StringLexemes == { <<"\"", "a">>, <<"\\">> }
Lexemes ==
  NumberLexemes \cup { <<"(", "+", " ">>, <<"x", " ">>, <<")">>, CommentLexeme }
    \cup StringLexemes

Text(lx) == IF lx = <<>> THEN <<>> ELSE Head(lx) \o Text(Tail(lx))

InitParse ==
  /\ lexemes \in UNION {[1..k -> Lexemes] : k \in 0..MaxLexemes}
  /\ source = Text(lexemes)
  /\ parsed = NotParsed
  /\ env = RootEnv
  /\ prev_env = RootEnv
  /\ expr = Unit
  /\ out = NoOutcome
  /\ trace = <<>>
  /\ steps = 0
  /\ OpsIdle
  /\ MainIdle

ParseSource ==
  /\ parsed = NotParsed
  /\ parsed' = parse_all(source)
  /\ UNCHANGED <<env, prev_env, expr, out, trace, steps, lhs, rhs, op, res,
                 lexemes, source, mode, code, file, exit_status, reports, inputs>>

NextParse == ParseSource
SpecParse == InitParse /\ [][NextParse]_vars

\* ------------------------------------------------------------------------
\* debug and operator== applied to a pair of Values, and parse applied to
\* the text debug gives for the first (wisp.cpp 389-421, 724-763, 1014-1031)
\* ------------------------------------------------------------------------

MaxText == 2

\* The Strings of at most MaxText characters among a, n, the double quote,
\* the backslash and the newline.
Characters == {"a", "n", "\"", "\\", "\n"}
Strings == { string(s) : s \in UNION {[1..k -> Characters] : k \in 0..MaxText} }

Elements == { MkInt(1), MkFloat(<<5, 2>>), string(<<"a">>), a_x }
ListsOfElements == { MkList(l) : l \in UNION {[1..k -> Elements] : k \in 0..2} }

\* The Values with a literal form: Ints, Floats, Atoms, Strings and Lists of
\* them, among these the List of the three elements lambda, (a) and a.
SelfQuoting ==
  {MkInt(i) : i \in {-1, 0, 12}}
    \cup {MkFloat(f) : f \in {<<1, 1>>, <<5, 2>>, <<-1, 2>>, <<1, 3>>, <<1000000, 1>>}}
    \cup {a_x, a_lambda}
    \cup Strings
    \cup ListsOfElements
    \cup {MkList(<<MkList(<<MkInt(1)>>)>>), MkList(<<a_lambda, MkList(<<a_a>>), a_a>>)}

\* The Values the first is compared with: Values of every tag but BUILTIN.
Compared ==
  { Unit, MkInt(1), MkInt(1000000), MkFloat(<<1, 1>>), MkFloat(<<5, 2>>),
    MkFloat(<<1000000, 1>>), MkFloat(<<1000001, 1>>),
    a_x, string(<<"x">>), string(<<"a">>), quote(a_x),
    MkList(<<>>), MkList(<<MkInt(1)>>), MkList(<<a_lambda, MkList(<<a_a>>), a_a>>),
    Lambda(<<a_a>>, a_a, <<EmptyDefs>>) }

InitText ==
  /\ lhs \in SelfQuoting \cup Compared
  /\ rhs \in Compared
  /\ op = ""
  /\ res = RVal(Unit)
  /\ env = RootEnv
  /\ prev_env = RootEnv
  /\ expr = Unit
  /\ out = NoOutcome
  /\ trace = <<>>
  /\ steps = 0
  /\ ParseIdle
  /\ MainIdle

\* debug of both, parse of the text of the first, and lhs == rhs
Debug ==
  /\ op = ""
  /\ op' = "debug"
  /\ source' = debug(lhs)
  /\ code' = debug(rhs)
  /\ parsed' = parse_all(debug(lhs))
  /\ res' = BVal(op_eq(lhs, rhs))
  /\ UNCHANGED <<env, prev_env, expr, out, trace, steps, lhs, rhs,
                 lexemes, mode, file, exit_status, reports, inputs>>

SpecText == InitText /\ [][Debug]_vars

\* ------------------------------------------------------------------------
\* The process: main, run and the REPL (wisp.cpp 1034-1044, 1646-1680,
\* 1785-1813)
\* ------------------------------------------------------------------------

MaxLines == 3

\* A run that evaluates the last expression only.
run_last_only(exprs, defs) == eval(exprs[Len(exprs)], <<defs>>, 0)

\* The loop of run over the parsed expressions and its return statement:
\* r is the outcome of the first of exprs.
run_next(r, exprs) ==
  IF ~r.ok \/ Len(exprs) = 1 THEN r
  ELSE WithTr(r.tr, run_loop(Tail(exprs), r.defs))

run_loop(exprs, defs) == run_next(eval(Head(exprs), <<defs>>, 0), exprs)

\* run: the parsed expressions are evaluated in order in env and the value
\* of the last one is returned; with no expression at all parsed.size()-1
\* wraps around and parsed[i] is read past the end of the vector.
run_parsed(p, defs) ==
  IF ~p.ok THEN EFail(p.err, defs, <<>>)
  ELSE IF p.vals = <<>> THEN EFail(UB_VECTOR_READ, defs, <<>>)
  ELSE run_loop(p.vals, defs)

\* A run that restores the environment when an expression fails.
restored(r, defs) == IF r.ok THEN r ELSE [r EXCEPT !.defs = defs]
run_restoring(text, defs) == restored(run_parsed(parse_all(text), defs), defs)

run(text, defs) == run_parsed(parse_all(text), defs)

\* A REPL that appends every line it ran, failed or not.
appended_always(buffer, input, ok) == buffer \o input \o <<"\n">>

\* code += input + "\n", reached only when run returned.
appended(buffer, input, ok) == IF ok THEN buffer \o input \o <<"\n">> ELSE buffer

\* (do (define x 2) y), which fails where y is unbound
DefineThenFail ==
  <<"(", "d", "o", " ", "(", "d", "e", "f", "i", "n", "e", " ", "x", " ", "2", ")", " ", "y", ")">>

\* (define x 1)   x   (   (define x 2) x   (do (define x 2) y)
ProgramLines ==
  { <<"(", "d", "e", "f", "i", "n", "e", " ", "x", " ", "1", ")">>,
    <<"x">>,
    <<"(">>,
    <<"(", "d", "e", "f", "i", "n", "e", " ", "x", " ", "2", ")", " ", "x">>,
    DefineThenFail }
QuitLines == { <<"!", "q", "u", "i", "t">>, <<"!", "q">> }
EnvLines == { <<"!", "e", "n", "v">>, <<"!", "e">> }
ExportLines == { <<"!", "e", "x", "p", "o", "r", "t">>, <<"!", "x">> }
FileNames == { <<"f">> }

\* The argument of -c and the contents of the file of -f; NoFile is a file
\* that cannot be opened.
Sources == ProgramLines \cup { <<>> }
COULD_NOT_OPEN == "could not open file"

\* main: env.set("cmd-args", Value(args))
main_env(argv) == set(EmptyDefs, n_cmd_args, MkList([i \in DOMAIN argv |-> string(argv[i])]))
wisp == <<"w", "i", "s", "p">>

InitMain ==
  /\ mode \in {"repl", "-c", "-f"}
  /\ source \in (CASE mode = "repl" -> { <<>> }
                   [] mode = "-c" -> Sources
                   [] mode = "-f" -> Sources \cup {NoFile})
  /\ env = (CASE mode = "repl" -> main_env(<<wisp>>)
              [] mode = "-c" -> main_env(<<wisp, <<"-", "c">>, source>>)
              [] mode = "-f" -> main_env(<<wisp, <<"-", "f">>, <<"f">>>>))
  /\ prev_env = env
  /\ expr = Unit
  /\ out = NoOutcome
  /\ trace = <<>>
  /\ steps = 0
  /\ code = <<>>
  /\ file = NoFile
  /\ exit_status = Running
  /\ reports = <<>>
  /\ inputs = <<>>
  /\ lexemes = <<>>
  /\ parsed = NotParsed
  /\ OpsIdle

\* The outcomes that end the process instead of raising an Error.
is_fatal(o) ==
  /\ ~o.ok
  /\ o.err \in {SIGFPE, STACK_OVERFLOW, UB_POP_EMPTY, UB_VECTOR_READ, UB_FLOAT_TO_INT,
               UB_STRING_READ}

Input(kind, line, o) == [kind |-> kind, line |-> line, ok |-> o.ok, err |-> o.err]

\* try { run(text, env) } catch (Error) { report } catch (runtime_error)
\* { report }, in the REPL (m = "repl", where a line that ran is appended to
\* the session buffer and the loop goes on) and in main (after which main
\* returns 0).
Execute(m, text) ==
  /\ mode = m
  /\ exit_status = Running
  /\ steps < MaxLines
  /\ \E o \in Outcomes(run(text, env)) :
       /\ env' = o.defs
       /\ trace' = o.tr
       /\ out' = Outcome(o)
       /\ reports' = IF o.ok \/ is_fatal(o) THEN reports ELSE Append(reports, o.err)
       /\ code' = IF m = "repl" THEN appended(code, text, o.ok) ELSE code
       /\ exit_status' = IF is_fatal(o) THEN Killed
                         ELSE IF m = "repl" THEN Running
                         ELSE ExitZero
       /\ inputs' = Append(inputs, Input("run", text, o))
  /\ prev_env' = env
  /\ source' = text
  /\ steps' = steps + 1
  /\ UNCHANGED <<expr, lhs, rhs, op, res, lexemes, parsed, mode, file>>

\* A turn of the REPL that evaluates nothing.
Turn(line, kind) ==
  /\ mode = "repl"
  /\ exit_status = Running
  /\ steps < MaxLines
  /\ inputs' = Append(inputs, Input(kind, line, NoOutcome))
  /\ source' = line
  /\ steps' = steps + 1
  /\ UNCHANGED <<env, prev_env, expr, out, trace, lhs, rhs, op, res, lexemes, parsed,
                 mode, code, reports>>

ReplEvaluate == \E line \in ProgramLines : Execute("repl", line)
ReplQuit == \E line \in QuitLines : Turn(line, "quit") /\ exit_status' = ExitZero /\ file' = file
ReplEnv == \E line \in EnvLines : Turn(line, "env") /\ UNCHANGED <<exit_status, file>>
ReplEmpty == Turn(<<>>, "empty") /\ UNCHANGED <<exit_status, file>>
\* The next line is read as the name of the file, and code is written to it.
ReplExport ==
  \E line \in ExportLines, name \in FileNames :
    Turn(line, "export") /\ file' = code /\ exit_status' = exit_status

CliCode == \E text \in {source} : Execute("-c", text)
CliFile == \E text \in {source} \ {NoFile} : Execute("-f", text)
\* read_file_contents throws std::runtime_error("could not open file").
CliNoFile ==
  /\ mode = "-f"
  /\ source = NoFile
  /\ exit_status = Running
  /\ reports' = Append(reports, COULD_NOT_OPEN)
  /\ inputs' = Append(inputs, [kind |-> "open", line |-> <<"f">>, ok |-> FALSE,
                               err |-> COULD_NOT_OPEN])
  /\ exit_status' = ExitZero
  /\ UNCHANGED <<env, prev_env, expr, out, trace, steps, lhs, rhs, op, res, lexemes,
                 source, parsed, mode, code, file>>

NextMain ==
  \/ ReplEvaluate \/ ReplQuit \/ ReplEnv \/ ReplEmpty \/ ReplExport
  \/ CliCode \/ CliFile \/ CliNoFile
SpecMain == InitMain /\ [][NextMain]_vars

\* ------------------------------------------------------------------------
\* Properties of the evaluator, stated on the trace of the last evaluation
\* ------------------------------------------------------------------------

Min(S) == CHOOSE m \in S : \A k \in S : m <= k
Max(S) == CHOOSE m \in S : \A k \in S : m >= k

\* The scopes of a chain, nearest first, that define name.
DefiningScopes(chain, name) == {i \in 1..Len(chain) : name \in DOMAIN chain[i]}

\* The names that occur as an Atom in v.
AtomNames(v) ==
  CASE v.type = "ATOM" -> {v.str}
    [] v.type = "QUOTE" -> AtomNames(v.list[1])
    [] v.type = "LAMBDA" -> AtomNames(v.list[2])
    [] v.type = "LIST" -> UNION {AtomNames(v.list[i]) : i \in 1..Len(v.list)}
    [] OTHER -> {}

\* e is the return of the evaluation of a (lambda ...) or (defun ...) form
\* that constructed a Lambda in the environment e.chain.
IsConstruction(e) ==
  /\ e.k = "eval"
  /\ e.ok
  /\ e.val.type = "LAMBDA"
  /\ e.v.type = "LIST"
  /\ Len(e.v.list) >= 1
  /\ e.v.list[1] \in {a_lambda, a_defun}

\* The eval and apply events of the calls made directly by the top-level
\* Value::eval.
TopCalls == SelectSeq(trace, LAMBDA e : e.d = 1 /\ e.k \in {"eval", "apply"})

\* C1: a reserved name bound by define, defun or for is stored by set, yet
\* every evaluation of that Atom, in the environment or in a descendant
\* (a scope copy, the scope of an application), yields the reserved Builtin
\* (the String "\n" for endl), never the user's value.
C1_ReservedNotShadowable ==
  /\ (expr = L(<<a_define, a_plus, MkInt(0)>>) /\ out.ok)
       => (n_plus \in DOMAIN env /\ env[n_plus] = MkInt(0))
  /\ \A n \in ReservedNames :
       /\ get(<<env>>, n) = RVal(reserved_value(n))
       /\ get(<<EmptyDefs, env>>, n) = RVal(reserved_value(n))
  /\ \A j \in DOMAIN trace :
       (trace[j].k = "get" /\ trace[j].name \in ReservedNames)
         => (trace[j].ok /\ trace[j].val = reserved_value(trace[j].name))

\* + was bound by the user before, and + was then evaluated inside the scope
\* of an application whose ancestor holds that binding.
C1_Witness ==
  /\ n_plus \in DOMAIN prev_env
  /\ prev_env[n_plus].type # "BUILTIN"
  /\ \E j \in DOMAIN trace :
       /\ trace[j].k = "get"
       /\ trace[j].name = n_plus
       /\ Len(trace[j].chain) >= 2
       /\ trace[j].val = reserved_value(n_plus)

\* C2: for a name outside the reserved table, get returns the binding of the
\* nearest scope of the chain that defines it, and fails with
\* ATOM_NOT_DEFINED exactly when no scope of the chain defines it.
C2_NearestScope ==
  \A j \in DOMAIN trace :
    LET e == trace[j]
        ds == DefiningScopes(e.chain, e.name)
    IN (e.k = "get" /\ e.name \notin ReservedNames)
         => IF ds = {} THEN ~e.ok /\ e.err = ATOM_NOT_DEFINED
            ELSE e.ok /\ e.val = e.chain[Min(ds)][e.name]

\* y is looked up from the scope of an application of g that does not
\* define it; the caller's scope and the root both define it, with different
\* values, and the caller's is returned.
C2_Witness ==
  \E j \in DOMAIN trace :
    LET e == trace[j]
    IN /\ e.k = "get"
       /\ e.name = n_y
       /\ Len(e.chain) = 3
       /\ DefiningScopes(e.chain, n_y) = {2, 3}
       /\ e.chain[2][n_y] # e.chain[3][n_y]
       /\ e.val = e.chain[2][n_y]

\* C3: (scope e1 ... en) leaves the environment it is evaluated in with
\* exactly the bindings it had; its body sees those bindings and its own
\* definitions, and its outcome is that of evaluating e1 ... en in order
\* (the value of en).
C3_ScopeDoesNotLeak ==
  expr \in ScopePrograms =>
    /\ env = prev_env
    /\ LET r == builtin_do_block(Tail(expr.list), <<prev_env>>, 1)
       IN out = [ok |-> r.ok, val |-> r.val, err |-> r.err]

\* (scope (define x 20) x) returned 20 where x was bound to another value,
\* which it still has.
C3_Witness ==
  /\ expr = L(<<a_scope, L(<<a_define, a_x, MkInt(20)>>), a_x>>)
  /\ n_x \in DOMAIN prev_env
  /\ prev_env[n_x] # MkInt(20)
  /\ out.ok
  /\ out.val = MkInt(20)
  /\ env[n_x] = prev_env[n_x]

\* C4: evaluating a non-empty List v first evaluates v[0]; a Builtin is then
\* applied to v[1..] unevaluated; otherwise v[1], v[2], ... are evaluated,
\* each once, in that order, in the calling environment, and apply is called
\* with the resulting values.  The empty List fails with EVAL_EMPTY_LIST.
C4_ListEvaluation ==
  (expr.type = "LIST") =>
    LET v == expr.list
        c == TopCalls
        n == Len(v) - 1
        \* the arguments evaluated before the first failure
        done == {i \in 1..n : \A m \in 1..i : m + 1 <= Len(c) /\ c[m + 1].k = "eval" /\ c[m + 1].ok}
    IN IF v = <<>> THEN c = <<>> /\ ~out.ok /\ out.err = EVAL_EMPTY_LIST
       ELSE /\ Len(c) >= 1
            /\ c[1].k = "eval" /\ c[1].v = v[1] /\ c[1].chain = <<prev_env>>
            /\ IF ~c[1].ok THEN Len(c) = 1
               ELSE IF c[1].val.type = "BUILTIN"
                    THEN /\ Len(c) = 2
                         /\ c[2].k = "apply" /\ c[2].v = c[1].val /\ c[2].args = Tail(v)
                    ELSE /\ \A i \in 1..n :
                              (i = 1 \/ (i - 1) \in done) =>
                                /\ Len(c) >= i + 1
                                /\ c[i + 1].k = "eval"
                                /\ c[i + 1].v = v[i + 1]
                                /\ c[i + 1].chain = <<c[i].defs>>
                         /\ IF done = 1..n
                            THEN /\ Len(c) = n + 2
                                 /\ c[n + 2].k = "apply"
                                 /\ c[n + 2].v = c[1].val
                                 /\ c[n + 2].args = [i \in 1..n |-> c[i + 1].val]
                                 /\ c[n + 2].chain = <<c[n + 1].defs>>
                            ELSE /\ Len(c) = Cardinality(done) + 2
                                 /\ ~c[Len(c)].ok
                                 /\ ~out.ok

\* ((lambda (a b) (list a b)) (define x 3) x) gave (3 3) where x was not 3:
\* the second argument saw the binding the first one made.
C4_Witness ==
  /\ expr = L(<<L(<<a_lambda, L(<<a_a, a_b>>), L(<<a_list, a_a, a_b>>)>>),
               L(<<a_define, a_x, MkInt(3)>>), a_x>>)
  /\ n_x \in DOMAIN prev_env
  /\ prev_env[n_x] # MkInt(3)
  /\ out.val = MkList(<<MkInt(3), MkInt(3)>>)
  /\ Len(TopCalls) = 4


\* The parameter names of the Lambda f.
ParamNames(f) == {f.list[1].list[i].str : i \in 1..Len(f.list[1].list)}

\* The events of the call Value::apply entered at trace[j]: its parameter
\* bindings and everything the evaluation of the body does.
Span(j) ==
  {i \in (j + 1)..Len(trace) :
     \A m \in (j + 1)..i :
       \/ trace[m].d > trace[j].d
       \/ trace[m].k = "set" /\ trace[m].d = trace[j].d}

\* trace[j] is the entry of an application of a Lambda to as many arguments
\* as it has parameters.
IsLambdaCall(j) ==
  /\ trace[j].k = "apply"
  /\ trace[j].v.type = "LAMBDA"
  /\ Len(trace[j].args) = Len(trace[j].v.list[1].list)

\* C5: a Lambda constructed by lambda or defun in environment E captures
\* exactly the names that occur as an Atom in its body and that E or an
\* ancestor defines, each with the value E.get gave at construction; when
\* the Lambda is applied its body observes that value for the name, whatever
\* E binds the name to by then.
C5_LambdaCapture ==
  /\ \A j \in DOMAIN trace :
       LET e == trace[j]
           sc == e.val.lambda_scope
       IN IsConstruction(e) =>
            /\ DOMAIN sc = {n \in AtomNames(e.val.list[2]) : DefiningScopes(e.chain, n) # {}}
            /\ \A n \in DOMAIN sc :
                 sc[n] = IF n \in ReservedNames THEN reserved_value(n)
                         ELSE e.chain[Min(DefiningScopes(e.chain, n))][n]
  /\ \A j \in DOMAIN trace :
       IsLambdaCall(j) =>
         \A i \in Span(j) :
           LET g == trace[i]
               f == trace[j].v
           IN (/\ g.k = "get"
               /\ Len(g.chain) = Len(trace[j].chain) + 1
               /\ g.name \in DOMAIN f.lambda_scope
               /\ g.name \notin ParamNames(f)
               /\ \A m \in Span(j) : m < i => ~(trace[m].k = "set" /\ trace[m].name = g.name))
                => (g.ok /\ g.val = f.lambda_scope[g.name])

\* f, which captured x, is applied where x has been rebound to another
\* value, and its body reads the captured one.
C5_Witness ==
  \E j \in DOMAIN trace :
    /\ IsLambdaCall(j)
    /\ n_x \in DOMAIN trace[j].v.lambda_scope
    /\ n_x \in DOMAIN trace[j].chain[1]
    /\ trace[j].chain[1][n_x] # trace[j].v.lambda_scope[n_x]
    /\ \E i \in Span(j) :
         /\ trace[i].k = "get"
         /\ trace[i].name = n_x
         /\ trace[i].val = trace[j].v.lambda_scope[n_x]

\* C6 as stated: no Lambda constructed by lambda or defun has a reserved
\* name among the keys of its captured environment.
C6_NoReservedKey ==
  \A j \in DOMAIN trace :
    IsConstruction(trace[j]) => DOMAIN trace[j].val.lambda_scope \cap ReservedNames = {}

\* C6: a reserved name is a key of the captured environment of a Lambda
\* exactly when it occurs as an Atom in the body and the user has bound it
\* in the creation environment or an ancestor; it is then captured with the
\* reserved Builtin, never with the user's value.  Where no user binding of
\* a reserved name exists, no reserved name is captured.
C6_ReservedCapturedOnlyIfUserBound ==
  \A j \in DOMAIN trace :
    LET e == trace[j]
        sc == e.val.lambda_scope
    IN IsConstruction(e) =>
         \A n \in ReservedNames :
           /\ n \in DOMAIN sc <=> (n \in AtomNames(e.val.list[2]) /\ DefiningScopes(e.chain, n) # {})
           /\ n \in DOMAIN sc => sc[n] = reserved_value(n)

\* A Lambda whose body uses + is constructed where the user has bound +, and
\* + is captured with the Builtin.
C6_Witness ==
  \E j \in DOMAIN trace :
    /\ IsConstruction(trace[j])
    /\ n_plus \in AtomNames(trace[j].val.list[2])
    /\ n_plus \in DOMAIN trace[j].chain[1]
    /\ trace[j].chain[1][n_plus].type # "BUILTIN"
    /\ n_plus \in DOMAIN trace[j].val.lambda_scope
    /\ trace[j].val.lambda_scope[n_plus] = reserved_value(n_plus)

\* C7: applying a Lambda with k parameters to m arguments fails with
\* TOO_FEW_ARGS when m < k and with TOO_MANY_ARGS when m > k, before any
\* parameter is bound or any part of the body is evaluated; when m = k the
\* parameters are bound to the arguments in order and the body is
\* evaluated; applying a Value that is neither Lambda nor Builtin fails
\* with CALL_NON_FUNCTION.
C7_ApplyArity ==
  \A j \in DOMAIN trace :
    LET a == trace[j]
        k == Len(a.v.list[1].list)
        m == Len(a.args)
        \* the call returned at once with the error err
        failed(err) ==
          /\ Span(j) = {}
          /\ j < Len(trace)
          /\ trace[j + 1].k = "eval"
          /\ trace[j + 1].d < a.d
          /\ ~trace[j + 1].ok
          /\ trace[j + 1].err = err
    IN a.k = "apply" =>
         CASE a.v.type = "LAMBDA" ->
                IF m < k THEN failed(TOO_FEW_ARGS)
                ELSE IF m > k THEN failed(TOO_MANY_ARGS)
                ELSE /\ \A i \in 1..k :
                          /\ trace[j + i].k = "set"
                          /\ trace[j + i].name = a.v.list[1].list[i].str
                          /\ trace[j + i].val = a.args[i]
                     /\ \E i \in Span(j) :
                          /\ trace[i].k = "eval"
                          /\ trace[i].d = a.d + 1
                          /\ trace[i].v = a.v.list[2]
           [] a.v.type = "BUILTIN" -> TRUE
           [] OTHER -> failed(CALL_NON_FUNCTION)

\* f, which has one parameter, was applied to two arguments and the call
\* failed with TOO_MANY_ARGS.
C7_Witness ==
  /\ expr = L(<<a_f, MkInt(1), MkInt(2)>>)
  /\ ~out.ok
  /\ out.err = TOO_MANY_ARGS
  /\ \E j \in DOMAIN trace :
       /\ trace[j].k = "apply"
       /\ trace[j].v.type = "LAMBDA"
       /\ Len(trace[j].args) = 2
       /\ Len(trace[j].v.list[1].list) = 1

\* The builtin whose application trace[j] enters.
IsBuiltinCall(j, b) ==
  /\ trace[j].k = "apply"
  /\ trace[j].v.type = "BUILTIN"
  /\ trace[j].v.b = b

\* The expressions the builtin entered at trace[j] evaluated itself, with
\* the outcome of each, in the order of their return.
DirectEvals(j) ==
  LET idx == {i \in Span(j) : trace[i].k = "eval" /\ trace[i].d = trace[j].d + 1}
  IN SelectSeq([i \in 1..Len(trace) |-> IF i \in idx THEN trace[i] ELSE Unit],
               LAMBDA e : e # Unit)

\* The application entered at trace[j] returned at once with the error err.
FailedAtOnce(j, err) ==
  /\ Span(j) = {}
  /\ j < Len(trace)
  /\ trace[j + 1].k = "eval"
  /\ trace[j + 1].d < trace[j].d
  /\ ~trace[j + 1].ok
  /\ trace[j + 1].err = err

\* C11: (if c t e) evaluates c once and then exactly one of t and e: t
\* when the value of c differs from the integer 0 (Float 0.0 equals it;
\* Unit, the empty List and the empty String do not), e otherwise; with a
\* number of arguments other than three it fails with TOO_FEW_ARGS or
\* TOO_MANY_ARGS and evaluates nothing.
C11_IfThenElse ==
  \A j \in DOMAIN trace :
    IsBuiltinCall(j, "builtin::if_then_else") =>
      LET a == trace[j].args
          ev == DirectEvals(j)
          falsy(v) == v = MkInt(0) \/ (v.type = "FLOAT" /\ v.f = <<0, 1>>)
      IN IF Len(a) < 3 THEN FailedAtOnce(j, TOO_FEW_ARGS)
         ELSE IF Len(a) > 3 THEN FailedAtOnce(j, TOO_MANY_ARGS)
         ELSE /\ Len(ev) >= 1
              /\ ev[1].v = a[1]
              /\ IF ~ev[1].ok THEN Len(ev) = 1
                 ELSE /\ Len(ev) = 2
                      /\ ev[2].v = (IF falsy(ev[1].val) THEN a[3] ELSE a[2])

\* (if c (define y 1) (define z 2)) was evaluated either for (list), whose
\* value is the empty List, and returned 1 and bound y only, or for 0.0 and
\* returned 2 and bound z only.
C11_Witness ==
  /\ expr \in {L(<<a_if, c, then_branch, else_branch>>) : c \in {L(<<a_list>>), MkFloat(<<0, 1>>)}}
  /\ out.ok
  /\ \/ expr.list[2] = L(<<a_list>>) /\ out.val = MkInt(1) /\ has(<<env>>, n_y) /\ ~has(<<env>>, n_z)
     \/ expr.list[2] = MkFloat(<<0, 1>>) /\ out.val = MkInt(2) /\ has(<<env>>, n_z) /\ ~has(<<env>>, n_y)

\* C13: (for name list-expr e1 ... en) evaluates list-expr exactly once,
\* then for each element of the resulting list, in order, binds name to it
\* and evaluates e1..en in order; it returns the value of en from the last
\* iteration and leaves name bound to the last element.
C13_ForLoop ==
  \A j \in DOMAIN trace :
    (IsBuiltinCall(j, "builtin::for_loop") /\ Len(trace[j].args) >= 3) =>
      LET a == trace[j].args
          ev == DirectEvals(j)
          body == SubSeq(a, 3, Len(a))
          sets == SelectSeq([i \in 1..Len(trace) |->
                               IF i \in Span(j) /\ trace[i].k = "set" /\ trace[i].d = trace[j].d
                               THEN trace[i] ELSE Unit],
                            LAMBDA e : e # Unit)
      IN /\ Len(ev) >= 1
         /\ ev[1].v = a[2]
         /\ (ev[1].ok /\ ev[1].val.type = "LIST" /\ \A i \in DOMAIN ev : ev[i].ok) =>
              LET xs == ev[1].val.list
              IN /\ [i \in DOMAIN ev |-> ev[i].v]
                      = <<a[2]>> \o [i \in 1..(Len(xs) * Len(body)) |->
                                       body[((i - 1) % Len(body)) + 1]]
                 /\ [i \in DOMAIN sets |-> <<sets[i].name, sets[i].val>>]
                      = [i \in DOMAIN xs |-> <<a[1].str, xs[i]>>]
                 /\ xs # <<>> =>
                      /\ out.ok
                      /\ out.val = ev[Len(ev)].val
                      /\ get(<<env>>, a[1].str).val = xs[Len(xs)]

\* C14: (defun name params body) and (define name (lambda params body)),
\* evaluated in the same environment, return equal Values, leave the
\* environment with the same bindings and fail with the same error on the
\* same inputs.
C14_DefunIsDefineLambda ==
  expr \in DefunForms =>
    LET r == eval(define_lambda(expr), <<prev_env>>, 0)
    IN /\ out.ok = r.ok
       /\ out.val = r.val
       /\ out.err = r.err
       /\ env = r.defs

\* (defun f (a) (+ a x)) was evaluated where x is bound: it returned a
\* Lambda that captured x and bound f to it.
C14_Witness ==
  /\ expr = L(<<a_defun, a_f, L(<<a_a>>), L(<<a_plus, a_a, a_x>>)>>)
  /\ out.ok
  /\ out.val.type = "LAMBDA"
  /\ n_x \in DOMAIN out.val.lambda_scope
  /\ ~has(<<prev_env>>, n_f)
  /\ get(<<env>>, n_f).val = out.val

\* C15: when x is bound to a List, (push x v1 ... vk) and (pop x) leave the
\* binding of x unchanged; push returns the old list followed by v1..vk in
\* order, and pop returns the last element of the list.
C15_PushPopValueSemantics ==
  LET old == get(<<prev_env>>, n_x).val.list
      vs == [i \in 1..(Len(expr.list) - 2) |-> eval(expr.list[i + 2], <<prev_env>>, 0).val]
  IN /\ expr \in PushPrograms =>
          /\ out.ok
          /\ out.val = MkList(old \o vs)
          /\ get(<<env>>, n_x) = get(<<prev_env>>, n_x)
     /\ expr \in PopPrograms =>
          /\ out.ok
          /\ Len(old) >= 1
          /\ out.val = old[Len(old)]
          /\ get(<<env>>, n_x) = get(<<prev_env>>, n_x)

\* C16: (index l i) returns the element at position i when
\* 0 <= i < len(l) and fails with INDEX_OUT_OF_RANGE for every other
\* integer i, negative ones included; (head l) returns element 0 of a
\* non-empty list and fails with INDEX_OUT_OF_RANGE on the empty list.
C16_IndexInRange ==
  LET l == get(<<prev_env>>, n_x).val.list
      failed == ~out.ok /\ out.err = INDEX_OUT_OF_RANGE
  IN /\ expr \in IndexPrograms =>
          LET i == expr.list[3].i
          IN IF 0 <= i /\ i < Len(l)
             THEN out.ok /\ out.val = l[i + 1]
             ELSE failed
     /\ expr \in HeadPrograms =>
          IF l # <<>> THEN out.ok /\ out.val = l[1] ELSE failed

\* (index x -1) was evaluated where x is bound to a list of two elements
\* and failed with INDEX_OUT_OF_RANGE.
C16_Witness ==
  /\ expr = L(<<a_index, a_x, MkInt(-1)>>)
  /\ Len(get(<<prev_env>>, n_x).val.list) = 2
  /\ ~out.ok
  /\ out.err = INDEX_OUT_OF_RANGE

\* ------------------------------------------------------------------------
\* Properties of the parser
\* ------------------------------------------------------------------------

\* The Int and Float Values of vals, in the order of the text.
Numbers(vals) ==
  IF vals = <<>> THEN <<>>
  ELSE LET v == Head(vals)
       IN (CASE v.type \in {"INT", "FLOAT"} -> <<v>>
             [] v.type \in {"LIST", "QUOTE"} -> Numbers(v.list)
             [] OTHER -> <<>>)
          \o Numbers(Tail(vals))

\* The Value of a numeric lexeme taken by itself: an Int unless one of its
\* own characters is '.'.
OwnValue(lexeme) == parse_number(SelectSeq(lexeme, LAMBDA c : ~isspace(c)), 0).val

\* C19: the tag of a parsed numeric literal depends only on its own lexeme:
\* Int when none of its own characters is '.', Float otherwise, whatever
\* text follows the literal in the source.
C19_LiteralTag ==
  (parsed # NotParsed /\ parsed.ok) =>
    LET literals == SelectSeq(lexemes, LAMBDA l : l \in NumberLexemes)
    IN Numbers(parsed.vals) = [i \in DOMAIN literals |-> OwnValue(literals[i])]

\* The text without its comments, each from ';' up to the end of its line.
strip_comments(s) ==
  IF s = <<>> THEN <<>>
  ELSE IF Head(s) = ";" THEN strip_comments(SubSeq(s, end_of_line(s, 0) + 1, Len(s)))
  ELSE <<Head(s)>> \o strip_comments(Tail(s))

\* C20: parse_all returns for every source text the same sequence of Values
\* as for the text with each comment deleted: a comment adds no element.
C20_CommentsLeaveNoTokens ==
  parsed # NotParsed =>
    LET plain == parse_all(strip_comments(source))
    IN parsed.ok = plain.ok /\ parsed.vals = plain.vals

\* ------------------------------------------------------------------------
\* Properties of run, main and the REPL
\* ------------------------------------------------------------------------

\* The returns of the evaluations run made itself, in order.
TopEvals == SelectSeq(trace, LAMBDA e : e.k = "eval" /\ e.d = 0)

\* The last line read, when run was called on it.
RanLast == inputs # <<>> /\ inputs[Len(inputs)].kind = "run"

\* C12: run evaluates the parsed top-level expressions one after another,
\* in source order, each in the environment as the one before left it, and
\* returns the value of the last one; an Error ends it at once.
C12_RunInOrder ==
  LET p == parse_all(source)
      tops == TopEvals
      n == Len(tops)
  IN (RanLast /\ p.ok /\ p.vals # <<>>) =>
       /\ n >= 1 /\ n <= Len(p.vals)
       /\ \A i \in 1..n :
            /\ tops[i].v = p.vals[i]
            /\ tops[i].chain = <<IF i = 1 THEN prev_env ELSE tops[i - 1].defs>>
            /\ i < n => tops[i].ok
       /\ env = tops[n].defs
       /\ out.ok = tops[n].ok
       /\ IF tops[n].ok
          THEN n = Len(p.vals) /\ out.val = tops[n].val
          ELSE out.err = tops[n].err

\* run was called on "(define x 2) x" where x was not bound to 2: it
\* returned 2, the value of the second expression, which saw the definition
\* made by the first.
C12_Witness ==
  /\ RanLast
  /\ source = <<"(", "d", "e", "f", "i", "n", "e", " ", "x", " ", "2", ")", " ", "x">>
  /\ get(<<prev_env>>, n_x).val # MkInt(2)
  /\ Len(TopEvals) = 2
  /\ out.ok
  /\ out.val = MkInt(2)
  /\ get(<<env>>, n_x).val = MkInt(2)

\* The lines whose evaluation raised an Error or a std::runtime_error.
Raised == {i \in DOMAIN inputs : ~inputs[i].ok /\ ~is_fatal(inputs[i])}

\* C17: an error that reaches the top level is caught exactly once: in the
\* REPL it is reported and the loop goes on with the next prompt; in the
\* modes -c and -f it is reported and the process terminates with a
\* non-zero exit status.
C17_ErrorsAtTopLevel ==
  /\ Len(reports) = Cardinality(Raised)
  /\ \A i \in Raised : reports[Cardinality({j \in Raised : j <= i})] = inputs[i].err
  /\ (mode = "repl" /\ Len(inputs) \in Raised) => exit_status = Running
  /\ (mode \in {"-c", "-f"} /\ Raised # {}) => exit_status \notin {Running, ExitZero}

\* The lines read so far on which run returned, each with its newline, in
\* the order they were read.
SucceededLines(ins) ==
  IF ins = <<>> THEN <<>>
  ELSE (IF Head(ins).kind = "run" /\ Head(ins).ok THEN Head(ins).line \o <<"\n">> ELSE <<>>)
       \o SucceededLines(Tail(ins))

Constructed(c, j) ==
  /\ c < j
  /\ IsConstruction(trace[c])
  /\ IsLambdaCall(j)
  /\ trace[j].v = trace[c].val

\* C23: while the body of a Lambda constructed in environment E is
\* evaluated, no name that E bound at the construction is looked up unless
\* it occurs as an Atom in the body (or is a parameter or a reserved name):
\* not by eval of a value built at run time, not by a function the body
\* calls.
C23_BodyReadsOnlyCollectedNames ==
  \A c \in DOMAIN trace, j \in DOMAIN trace :
    Constructed(c, j) =>
      \A i \in Span(j) :
        LET g == trace[i]
            f == trace[j].v
        IN (/\ g.k = "get"
            /\ g.ok
            /\ g.name \notin ReservedNames
            /\ g.name \notin ParamNames(f)
            /\ DefiningScopes(trace[c].chain, g.name) # {})
             => g.name \in AtomNames(f.list[2])

\* C24: the evaluation of a Quote returns the Value it holds, whatever its
\* tag, with one layer stripped: nothing is evaluated or looked up for it
\* and the environment is left as it was.
C24_QuoteStripsOneLayer ==
  /\ expr \in {quote(e) : e \in Quoted} =>
       /\ out.ok
       /\ out.val = expr.list[1]
       /\ env = prev_env
       /\ Len(trace) = 1
  /\ \A i \in DOMAIN trace :
       LET e == trace[i]
       IN (e.k = "eval" /\ e.v.type = "QUOTE") =>
            /\ e.ok
            /\ e.val = e.v.list[1]
            /\ e.defs = e.chain[1]
            /\ (i = 1 \/ trace[i - 1].d <= e.d)

\* '(define y 1) was evaluated: the List came back and y is unbound; and
\* ''x was evaluated as an argument and gave 'x.
C24_Witness ==
  \/ /\ expr = quote(L(<<a_define, a_y, MkInt(1)>>))
     /\ out.val = L(<<a_define, a_y, MkInt(1)>>)
     /\ n_y \notin DOMAIN env
  \/ /\ expr = L(<<a_list, quote(a_y), quote(quote(a_x))>>)
     /\ out.ok
     /\ out.val = L(<<a_y, quote(a_x)>>)

\* ------------------------------------------------------------------------
\* Properties of the parser on string literals
\* ------------------------------------------------------------------------

\* Where a reader of the text s is after its last character, having started
\* in state st: in the code, in a comment, in a string literal or after a
\* backslash of a string literal.
ScanState(s, st) ==
  IF s = <<>> THEN st
  ELSE ScanState(Tail(s),
         CASE st = "code" ->
                IF Head(s) = "\"" THEN "string"
                ELSE IF Head(s) = ";" THEN "comment" ELSE "code"
           [] st = "string" ->
                IF Head(s) = "\\" THEN "escape"
                ELSE IF Head(s) = "\"" THEN "code" ELSE "string"
           [] st = "escape" -> "string"
           [] st = "comment" -> IF Head(s) = "\n" THEN "code" ELSE "comment")

\* C25: a source text that ends inside a string literal, before the
\* unescaped closing quote or right after a backslash of the literal, makes
\* the parser fail with MALFORMED_PROGRAM, and the scan for the closing
\* quote reads no position past the end of the text.
C25_UnterminatedString ==
  (parsed # NotParsed /\ ScanState(source, "code") \in {"string", "escape"}) =>
    (~parsed.ok /\ parsed.err = MALFORMED_PROGRAM)

\* C26: a name the body of a Lambda reads that the application scope does
\* not bind (it was unbound at the construction and is no parameter) is
\* resolved in the environment of the caller, as that environment is at the
\* call; so a function defined after, or a parameter of the caller, is seen,
\* and a function bound with define can call itself.
C26_FreeNamesResolveInCaller ==
  /\ \A j \in DOMAIN trace :
       IsLambdaCall(j) =>
         \A i \in Span(j) :
           LET g == trace[i]
               r == get(trace[j].chain, g.name)
           IN (/\ g.k = "get"
               /\ Len(g.chain) = Len(trace[j].chain) + 1
               /\ g.name \notin DOMAIN g.chain[1])
                => (/\ Tail(g.chain) = trace[j].chain
                    /\ g.ok = r.ok
                    /\ g.val = r.val
                    /\ g.err = r.err)
  /\ expr = LaterDefinition => (out.ok /\ out.val = MkInt(1))
  /\ expr = CallerScope => (out.ok /\ out.val = MkInt(5))
  /\ expr \in Recursion => (out.ok /\ out.val = MkInt(0))

\* f, whose body reads y, was called from the body of g: y was read in a
\* chain of three scopes, found in the second, the scope of g's application,
\* though the root environment where f was constructed does not bind y; and
\* f called itself once.
C26_Witness ==
  \/ /\ expr = CallerScope
     /\ n_y \notin DOMAIN env
     /\ \E i \in DOMAIN trace :
          /\ trace[i].k = "get"
          /\ trace[i].name = n_y
          /\ Len(trace[i].chain) = 3
          /\ n_y \notin DOMAIN trace[i].chain[1]
          /\ n_y \in DOMAIN trace[i].chain[2]
          /\ trace[i].val = MkInt(5)
  \/ /\ expr = Do(<<Def(a_f, Countdown), L(<<a_f, MkInt(1)>>)>>)
     /\ out.ok
     /\ Cardinality({j \in DOMAIN trace : IsLambdaCall(j)}) = 2

\* The event that follows the call entered at trace[j] and all it did.
AfterCall(j) == trace[Max(Span(j) \cup {j}) + 1]

\* C27: the application of a Lambda leaves the environment of the caller
\* with exactly the bindings it had when the call was entered, whether the
\* body returns or fails and whatever it defines: the parameters and what
\* define, defun and for bind in the body go to the scope of the
\* application.
C27_BodyLeavesCallerEnv ==
  /\ \A j \in DOMAIN trace :
       IsLambdaCall(j) => AfterCall(j).defs = trace[j].chain[1]
  /\ expr \in {BodyDefines, BodyFails} =>
       /\ DOMAIN env = DOMAIN prev_env \cup {n_f}
       /\ \A n \in DOMAIN prev_env : env[n] = prev_env[n]
  /\ expr = BodyDefines => (out.ok /\ out.val = MkInt(5))
  /\ expr = BodyFails => (~out.ok /\ out.err = ATOM_NOT_DEFINED)

\* The body of f ran (define x 9), (defun h ...), a for loop that defined n
\* and (h a) where x and n are bound by the caller: four names were set in
\* the application's scope at the depth of the body, and x is still the
\* caller's List.
C27_Witness ==
  /\ expr = BodyDefines
  /\ out.ok
  /\ env[n_x].type = "LIST"
  /\ env[n_n] = MkInt(0)
  /\ \E j \in DOMAIN trace :
       /\ IsLambdaCall(j)
       /\ trace[j].v.list[1] = L(<<a_a>>)
       /\ {trace[i].name : i \in {m \in Span(j) : trace[m].k = "set"}}
            = {n_a, n_x, <<"h">>, n_i, n_n, n_b}

\* ------------------------------------------------------------------------
\* Properties of the process after an evaluation that failed
\* ------------------------------------------------------------------------

\* The set events of the trace that bound a name in the environment run was
\* called with: those outside every application of a Lambda and every scope.
TopSets ==
  {i \in DOMAIN trace :
     /\ trace[i].k = "set"
     /\ \A j \in DOMAIN trace :
          (IsLambdaCall(j) \/ IsBuiltinCall(j, "builtin::scope")) => i \notin Span(j)}

\* Every name bound in the environment during the last run holds the value
\* it was bound to last.
BindingsKept ==
  \A i \in TopSets :
    LET n == trace[i].name
    IN /\ n \in DOMAIN env
       /\ env[n] = trace[Max({m \in TopSets : trace[m].name = n})].val

\* C28: when the evaluation of a line fails, what define, defun and for had
\* bound in the environment before the failure stays bound, and the next
\* evaluation starts in that environment; the REPL does not add the failed
\* line to the session buffer.
C28_NoRollback ==
  [][ (steps' = steps + 1 /\ RanLast')
        => /\ ~out'.ok => (BindingsKept' /\ (mode = "repl" => code' = code))
           /\ TopEvals' # <<>> => TopEvals'[1].chain = <<env>> ]_vars

\* The REPL read (do (define x 2) y), which failed after x was bound, and
\* then x, which gave 2; the buffer holds the second line only.
C28_Witness ==
  /\ mode = "repl"
  /\ Len(inputs) = 2
  /\ inputs[1].line = DefineThenFail
  /\ ~inputs[1].ok
  /\ inputs[2].line = <<"x">>
  /\ out.ok
  /\ out.val = MkInt(2)
  /\ code = <<"x", "\n">>

\* C29: map, filter and reduce hand the elements of the list to the function
\* as values: with a Builtin f that is no special form, (map f l) gives what
\* (map (lambda (a) (f a)) l) gives, and so for filter, and for reduce with
\* (lambda (a b) (f a b)), whatever the elements of l are.
C29_MapPassesValues ==
  expr \in MapPrograms =>
    LET r == eval(wrapped(expr), <<prev_env>>, 0)
    IN /\ out.ok = r.ok
       /\ out.val = r.val
       /\ out.err = r.err

\* C30: pop and last of an empty List raise an Error and return no Value;
\* as head, index and remove do, they read no element at a position outside
\* the list.
C30_PopOfEmptyRaises ==
  /\ (expr \in {L(<<a_pop, a_x>>), L(<<a_last, a_x>>)} /\ prev_env[n_x] = MkList(<<>>))
       => (~out.ok /\ out.err \notin {UB_POP_EMPTY, UB_VECTOR_READ})
  /\ expr \in PopPrograms \cup HeadPrograms \cup IndexPrograms \cup RemovePrograms
       => out.err \notin {UB_POP_EMPTY, UB_VECTOR_READ}

\* ------------------------------------------------------------------------
\* Properties of debug, operator== and parse, stated on a pair of Values
\* ------------------------------------------------------------------------

\* C21: the text debug gives for a Value with a literal form (an Int, a
\* Float, a String, an Atom or a List of them) parses to exactly one Value,
\* and that Value is equal to the one rendered.
C21_DebugParseRoundTrip ==
  (op = "debug" /\ lhs \in SelfQuoting) =>
    /\ parsed.ok
    /\ Len(parsed.vals) = 1
    /\ op_eq(parsed.vals[1], lhs)

\* C22: two Values that hold no Builtin are equal exactly when debug gives
\* the same text for both.
C22_EqualIffSameText ==
  op = "debug" => (res.b <=> source = code)

\* ------------------------------------------------------------------------
\* Properties of the binary and ordering operators
\* ------------------------------------------------------------------------

ArithOps == {"+", "-", "*", "/", "%"}
OrderOps == {"<", "<=", ">", ">="}

\* C8 as stated: Unit absorbs arithmetic; a op Unit and Unit op a are Unit
\* for + - * / % and every a, without error.
C8_UnitAbsorbs ==
  (op \in ArithOps /\ (lhs = Unit \/ rhs = Unit)) => res = RVal(Unit)

\* C9 as stated: for operands neither of which is Unit the outcome of
\* + - * / % is fixed by the operand tags: Int with Int gives Int, a Float
\* with a number gives Float, + on two Strings gives String, + on two Lists
\* gives List, every other combination fails with INVALID_BIN_OP.
C9_TagTable ==
  (op \in ArithOps /\ lhs # Unit /\ rhs # Unit) =>
    IF lhs.type = "INT" /\ rhs.type = "INT" THEN res.ok /\ res.val.type = "INT"
    ELSE IF is_number(lhs) /\ is_number(rhs) THEN res.ok /\ res.val.type = "FLOAT"
    ELSE IF op = "+" /\ lhs.type = "STRING" /\ rhs.type = "STRING"
         THEN res.ok /\ res.val.type = "STRING"
    ELSE IF op = "+" /\ lhs.type = "LIST" /\ rhs.type = "LIST"
         THEN res.ok /\ res.val.type = "LIST"
    ELSE ~res.ok /\ res.err = INVALID_BIN_OP

\* a < b and a = b on numbers, as rationals.
NumLess(a, b) == FLess(cast_to_float(a).val.f, cast_to_float(b).val.f)
NumEq(a, b) == FEq(cast_to_float(a).val.f, cast_to_float(b).val.f)

\* C10 as stated: an ordering comparison fails with INVALID_BIN_OP when the
\* right operand is not a number, otherwise with INVALID_ORDER when the left
\* operand is not a number, and otherwise returns the numeric comparison; no
\* comparison with a non-number operand returns a result.
C10_OrderingErrors ==
  op \in OrderOps =>
    IF ~is_number(rhs) THEN res = BErr(INVALID_BIN_OP)
    ELSE IF ~is_number(lhs) THEN res = BErr(INVALID_ORDER)
    ELSE res = BVal(CASE op = "<" -> NumLess(lhs, rhs)
                      [] op = "<=" -> NumEq(lhs, rhs) \/ NumLess(lhs, rhs)
                      [] op = ">" -> ~(NumEq(lhs, rhs) \/ NumLess(lhs, rhs))
                      [] op = ">=" -> ~NumLess(lhs, rhs))

====
